---- MODULE Spec2Model ----
(***************************************************************************)
(* Model of the editor stacks model of the workbench                       *)
(* (src/vs/workbench/common/editor/editorStacksModel.ts): EditorGroup, an  *)
(* ordered list of editor inputs with active / preview / MRU bookkeeping,  *)
(* and EditorStacksModel, the list of groups with the cross-group close    *)
(* rule and the recently-closed buffer.                                    *)
(*                                                                         *)
(* Conventions.  Indices are 0-based as in the source; At(s, i) reads a    *)
(* JavaScript array (undefined outside the bounds), jsSplice is            *)
(* Array.prototype.splice.  NULL stands for both null and undefined (the   *)
(* code only ever tests them for truthiness).  An editor input is a        *)
(* positive number; a group is a record.                                   *)
(***************************************************************************)
EXTENDS Integers, Sequences, FiniteSets, TLC

VARIABLES
    grp,                    \* GroupSpec: one stand-alone EditorGroup
    last,                   \* GroupSpec: the last call on grp: operation, arguments, group before, events fired
    direction,              \* CONFIG_OPEN_EDITOR_DIRECTION
    groups,                 \* EditorStacksModel._groups
    activeGroup,            \* EditorStacksModel._activeGroup (the id of a group, or NoGroup)
    groupToIdentifier,      \* EditorStacksModel.groupToIdentifier (the ids that are mapped)
    IDS,                    \* EditorGroup.IDS
    recentlyClosedEditors,  \* EditorStacksModel.recentlyClosedEditors
    mlast,                  \* ModelSpec: the last call on the model, with the close() calls and events it made
    workspace,              \* what load() reads: the options of the workspace and the stored model
    view,                   \* ViewSpec: the NextEditorGroupView of grp and its closeEditor in progress
    loaded                  \* EditorStacksModel.loaded

vars == <<grp, last, direction, groups, activeGroup, groupToIdentifier, IDS,
          recentlyClosedEditors, mlast, workspace, view, loaded>>

modelVars == <<groups, activeGroup, groupToIdentifier, IDS, recentlyClosedEditors, mlast,
               workspace, view, loaded>>

-----------------------------------------------------------------------------
(* Bounds *)

\* editor inputs a stand-alone group is driven with
NumEditors == 3

\* groups a stacks model creates in one run (EditorGroup.IDS stops there)
MaxGroupIds == 2

NULL == 0

EditorInputs == 1 .. NumEditors

Min(a, b) == IF a < b THEN a ELSE b
Max(a, b) == IF a > b THEN a ELSE b

-----------------------------------------------------------------------------
(* JavaScript arrays *)

\* s[i] of a JavaScript array: undefined outside 0 .. length-1
At(s, i) == IF i >= 0 /\ i < Len(s) THEN s[i + 1] ELSE NULL

\* Array.prototype.splice(start, deleteCount, ...items), the array afterwards
jsSplice(s, start, deleteCount, items) ==
    LET len == Len(s)
        st  == IF start < 0 THEN Max(len + start, 0) ELSE Min(start, len)
        dc  == Min(Max(deleteCount, 0), len - st)
    IN  SubSeq(s, 1, st) \o items \o SubSeq(s, st + dc + 1, len)

Range(s) == { s[i] : i \in 1 .. Len(s) }

-----------------------------------------------------------------------------
(* EditorGroup *)

Right == "RIGHT"
Left  == "LEFT"
NoDirection == "NONE"

\* an input is an EditorInput object; e and e + OtherHandle are two objects
\* of one resource
OtherHandle == 1000

resourceOf(e) == e % OtherHandle

\* EditorInput.matches of the inputs of the model: the same resource
inputMatches(a, b) == resourceOf(a) = resourceOf(b)

\* EditorGroup.matches
matches(editorA, editorB) ==
    editorA # NULL /\ editorB # NULL /\ inputMatches(editorA, editorB)

\* EditorGroup.indexOf(candidate, editors)
indexOf(candidate, editors) ==
    IF candidate = NULL THEN -1
    ELSE LET hits == { i \in 0 .. Len(editors) - 1 : matches(editors[i + 1], candidate) }
         IN  IF hits = {} THEN -1 ELSE CHOOSE i \in hits : \A j \in hits : i <= j

\* an event as a subscriber of the group sees it: the emitter, its argument, and
\* the editors and the preview of the group at the moment it fires
Event(type, editor, pinned, g) ==
    [type |-> type, editor |-> editor, pinned |-> pinned, editors |-> g.editors,
     preview |-> g.preview]

\* EditorGroup.fireEvent (the paired onEditorChanged carries the same editor)
fireEvent(g, type, editor, pinned) ==
    [g EXCEPT !.ev = Append(@, Event(type, editor, pinned, g))]

\* new EditorGroup(label)
EmptyGroup ==
    [editors |-> <<>>, mru |-> <<>>, preview |-> NULL, active |-> NULL, ev |-> <<>>]

\* splice with the removal from mru done at the index in editors
splice_mruAtEditorIndex(g, index, del, editor) ==
    LET items    == IF editor # NULL THEN <<editor>> ELSE <<>>
        editors1 == jsSplice(g.editors, index, IF del THEN 1 ELSE 0, items)
        mru1 == IF ~del /\ editor # NULL THEN Append(g.mru, editor)
                ELSE IF del /\ editor = NULL THEN jsSplice(g.mru, index, 1, <<>>)
                ELSE jsSplice(g.mru, index, 1, items)
    IN  [g EXCEPT !.editors = editors1, !.mru = mru1]

\* EditorGroup.splice(index, del, editor)
splice(g, index, del, editor) ==
    LET editorToDeleteOrReplace == At(g.editors, index)
        items      == IF editor # NULL THEN <<editor>> ELSE <<>>
        editors1   == jsSplice(g.editors, index, IF del THEN 1 ELSE 0, items)
        indexInMRU == indexOf(editorToDeleteOrReplace, g.mru)
        mru1 == IF ~del /\ editor # NULL THEN Append(g.mru, editor)
                ELSE IF del /\ editor = NULL THEN jsSplice(g.mru, indexInMRU, 1, <<>>)
                ELSE jsSplice(g.mru, indexInMRU, 1, items)
    IN  [g EXCEPT !.editors = editors1, !.mru = mru1]

\* EditorGroup.setMostRecentlyUsed(editor)
setMostRecentlyUsed(g, editor) ==
    IF indexOf(editor, g.editors) = -1 THEN g
    ELSE LET mruIndex == indexOf(editor, g.mru)
         IN  [g EXCEPT !.mru = <<editor>> \o jsSplice(g.mru, mruIndex, 1, <<>>)]

\* EditorGroup.setActive(editor)
setActive(g, editor) ==
    IF indexOf(editor, g.editors) = -1 THEN g
    ELSE IF matches(g.active, editor) THEN g
    ELSE fireEvent(setMostRecentlyUsed([g EXCEPT !.active = editor], editor),
                   "activated", editor, TRUE)

\* closeEditor that leaves the preview field alone
closeEditor_keepsPreview(g, editor, openNext) ==
    LET index == indexOf(editor, g.editors)
        g1 == IF openNext /\ matches(g.active, editor)
              THEN IF Len(g.mru) > 1 THEN setActive(g, At(g.mru, 1))
                   ELSE [g EXCEPT !.active = NULL]
              ELSE g
    IN  IF index = -1 THEN g
        ELSE fireEvent(splice(g1, index, TRUE, NULL), "closed", editor, TRUE)

\* closeEditor that reports every closed editor as pinned
closeEditor_alwaysPinned(g, editor, openNext) ==
    LET index == indexOf(editor, g.editors)
        g1 == IF openNext /\ matches(g.active, editor)
              THEN IF Len(g.mru) > 1 THEN setActive(g, At(g.mru, 1))
                   ELSE [g EXCEPT !.active = NULL]
              ELSE g
        g2 == IF matches(g1.preview, editor) THEN [g1 EXCEPT !.preview = NULL] ELSE g1
    IN  IF index = -1 THEN g
        ELSE fireEvent(splice(g2, index, TRUE, NULL), "closed", editor, TRUE)

\* EditorGroup.closeEditor(editor, openNext)
closeEditor(g, editor, openNext) ==
    LET index == indexOf(editor, g.editors)
        g1 == IF openNext /\ matches(g.active, editor)
              THEN IF Len(g.mru) > 1 THEN setActive(g, At(g.mru, 1))
                   ELSE [g EXCEPT !.active = NULL]
              ELSE g
        wasPreview == matches(g1.preview, editor)
        g2 == IF wasPreview THEN [g1 EXCEPT !.preview = NULL] ELSE g1
        g3 == splice(g2, index, TRUE, NULL)
    IN  IF index = -1 THEN g
        ELSE fireEvent(g3, "closed", editor, ~wasPreview)

\* forEach(e => this.closeEditor(e)) over a list taken before the first close
RECURSIVE closeEach(_, _)
closeEach(g, list) ==
    IF list = <<>> THEN g
    ELSE closeEach(closeEditor(g, Head(list), TRUE), Tail(list))

\* for (i = from; i > downTo; i--) this.closeEditor(this.editors[i])
RECURSIVE closeByIndex(_, _, _)
closeByIndex(g, i, downTo) ==
    IF i > downTo THEN closeByIndex(closeEditor(g, At(g.editors, i), TRUE), i - 1, downTo)
    ELSE g

\* EditorGroup.closeEditors(except, direction)
closeEditors(g, except, dir) ==
    LET index == indexOf(except, g.editors)
        keep(e) == ~matches(e, except)
    IN  IF index = -1 THEN g
        ELSE IF dir = Left THEN closeByIndex(g, index - 1, -1)
        ELSE IF dir = Right THEN closeByIndex(g, Len(g.editors) - 1, index)
        ELSE closeEach(g, SelectSeq(g.mru, keep))

\* EditorGroup.closeAllEditors()
closeAllEditors(g) ==
    LET keep(e) == ~matches(e, g.active)
        g1 == closeEach(g, SelectSeq(g.mru, keep))
    IN  closeEditor(g1, g1.active, TRUE)

\* EditorGroup.moveEditor(editor, toIndex)
moveEditor(g, editor, toIndex) ==
    LET index == indexOf(editor, g.editors)
        moved == jsSplice(jsSplice(g.editors, index, 1, <<>>), toIndex, 0, <<editor>>)
    IN  IF index < 0 THEN g
        ELSE fireEvent([g EXCEPT !.editors = moved], "moved", editor, TRUE)

\* EditorGroup.isPreview(editor)
isPreview(g, editor) == matches(g.preview, editor)

\* EditorGroup.isPinned(editor)
isPinned(g, editor) ==
    IF indexOf(editor, g.editors) = -1 THEN FALSE
    ELSE IF g.preview = NULL THEN TRUE
    ELSE ~matches(g.preview, editor)

\* pin that does not ask whether the editor is the preview
pin_anyEditor(g, editor) ==
    IF indexOf(editor, g.editors) = -1 THEN g
    ELSE fireEvent([g EXCEPT !.preview = NULL], "pinned", editor, TRUE)

\* EditorGroup.pin(editor)
pin(g, editor) ==
    IF ~isPreview(g, editor) THEN g
    ELSE fireEvent([g EXCEPT !.preview = NULL], "pinned", editor, TRUE)

\* unpin that leaves the old preview editor open
unpin_keepsOldPreview(g, editor) ==
    IF ~isPinned(g, editor) THEN g
    ELSE fireEvent([g EXCEPT !.preview = editor], "unpinned", editor, TRUE)

\* EditorGroup.unpin(editor)
unpin(g, editor) ==
    LET oldPreview == g.preview
        g1 == fireEvent([g EXCEPT !.preview = editor], "unpinned", editor, TRUE)
    IN  IF ~isPinned(g, editor) THEN g
        ELSE closeEditor(g1, oldPreview, TRUE)

\* IEditorOpenOptions: typeof options.index === 'number' is hasIndex
Options(pinned, active, hasIndex, index) ==
    [pinned |-> pinned, active |-> active, hasIndex |-> hasIndex, index |-> index]

\* the target index of a new editor, EditorGroup.openEditor lines 238-258
openTargetIndex(g, options, dir) ==
    LET indexOfActive == indexOf(g.active, g.editors)
    IN  IF options.hasIndex THEN options.index
        ELSE IF dir = Right THEN indexOfActive + 1
        ELSE IF indexOfActive = 0 \/ Len(g.editors) = 0 THEN 0
        ELSE indexOfActive - 1

\* the index a new preview editor takes once the old preview is closed,
\* EditorGroup.openEditor lines 270-273
previewTargetIndex(targetIndex, indexOfPreview) ==
    IF targetIndex >= indexOfPreview THEN targetIndex - 1 ELSE targetIndex

\* options && options.pinned
makePinned(options) == options.pinned

\* makeActive of EditorGroup.openEditor
makeActive(g, options) ==
    options.active \/ g.active = NULL \/ (~makePinned(options) /\ matches(g.preview, g.active))

\* replacePreview that leaves the old preview editor open
replacePreview_keepsOld(g, editor, targetIndex, active) ==
    splice(g, targetIndex, FALSE, editor)

\* EditorGroup.openEditor lines 268-277: the new editor takes the place of the
\* preview editor
replacePreview(g, editor, targetIndex, active) ==
    LET indexOfPreview == indexOf(g.preview, g.editors)
    IN  splice(closeEditor(g, g.preview, ~active),
               previewTargetIndex(targetIndex, indexOfPreview), FALSE, editor)

\* EditorGroup.openEditor, the branch of an editor that is not in the group
openNewEditor(g, editor, options, dir) ==
    LET targetIndex == openTargetIndex(g, options, dir)
        active == makeActive(g, options)
        g1 == IF makePinned(options) \/ g.preview = NULL
              THEN splice(g, targetIndex, FALSE, editor) ELSE g
        g2 == IF ~makePinned(options)
              THEN [(IF g1.preview # NULL
                     THEN replacePreview(g1, editor, targetIndex, active)
                     ELSE g1) EXCEPT !.preview = editor]
              ELSE g1
        g3 == fireEvent(g2, "opened", editor, TRUE)
    IN  IF active THEN setActive(g3, editor) ELSE g3

\* EditorGroup.openEditor, the branch of an editor that is in the group
openExistingEditor(g, editor, options) ==
    LET g1 == IF makePinned(options) THEN pin(g, editor) ELSE g
        g2 == IF makeActive(g, options) THEN setActive(g1, editor) ELSE g1
    IN  IF options.hasIndex THEN moveEditor(g2, editor, options.index) ELSE g2

\* openEditor that does not look the editor up in the group
openEditor_noLookup(g, editor, options, dir) ==
    openNewEditor(g, editor, options, dir)

\* EditorGroup.openEditor(editor, options)
openEditor(g, editor, options, dir) ==
    IF indexOf(editor, g.editors) = -1
    THEN openNewEditor(g, editor, options, dir)
    ELSE openExistingEditor(g, editor, options)

-----------------------------------------------------------------------------
(* Editor inputs of the stacks model *)

\* a DiffEditorInput; it wraps the inputs 1 (original) and 2 (modified)
DiffInput == 100

\* editor instanceof DiffEditorInput
isDiffInput(editor) == editor = DiffInput

getOriginalInput(editor) == 1
getModifiedInput(editor) == 2

\* EditorInput.getId(): the type of the input
getId(editor) ==
    IF isDiffInput(editor) THEN "diff"
    ELSE IF resourceOf(editor) % 3 = 0 THEN "file" ELSE "untitled"

\* registry.getEditorInputFactory(id): only file inputs have a factory
hasEditorInputFactory(id) == id = "file"

\* factory.serialize(editor): the string that names the input
factorySerialize(editor) == [resource |-> resourceOf(editor)]

\* factory.deserialize(value)
factoryDeserialize(value) == value.resource

-----------------------------------------------------------------------------
(* EditorGroup.serialize and deserialize *)

\* the editors of g whose type has a factory: serializableEditors
serializableEditors(g) ==
    LET serializable(e) == hasEditorInputFactory(getId(e))
    IN  SelectSeq(g.editors, serializable)

\* ISerializedEditorInput of every element of editors
serializeEditors(editors) ==
    [i \in 1 .. Len(editors) |->
        [id |-> getId(editors[i]), value |-> factorySerialize(editors[i])]]

\* this.mru.map(e => this.indexOf(e, editors)).filter(i => i >= 0)
serializeMru(g, editors) ==
    LET found(i) == i >= 0
    IN  SelectSeq([i \in 1 .. Len(g.mru) |-> indexOf(g.mru[i], editors)], found)

\* serializablePreviewIndex: the index of the object e with this.preview === e,
\* -1 when it stays undefined
serializablePreviewIndex(g, editors) ==
    LET hits == { i \in 0 .. Len(editors) - 1 : editors[i + 1] = g.preview }
    IN  IF hits = {} THEN -1 ELSE CHOOSE i \in hits : \A j \in hits : j <= i

\* EditorGroup.serialize(): ISerializedEditorGroup; preview is a number only
\* when hasPreview
serialize(g) ==
    LET editors == serializableEditors(g)
        previewIndex == serializablePreviewIndex(g, editors)
    IN  [label |-> g.label,
         editors |-> serializeEditors(editors),
         mru |-> serializeMru(g, editors),
         hasPreview |-> previewIndex >= 0,
         preview |-> Max(previewIndex, 0)]

\* new EditorGroup(data): EditorGroup.deserialize(data) in the constructor
deserialize(id, data) ==
    LET editors == [i \in 1 .. Len(data.editors) |-> factoryDeserialize(data.editors[i].value)]
        mru == [i \in 1 .. Len(data.mru) |-> At(editors, data.mru[i])]
    IN  [id |-> id, label |-> data.label, editors |-> editors, mru |-> mru,
         preview |-> IF data.hasPreview THEN At(editors, data.preview) ELSE NULL,
         active |-> At(mru, 0), ev |-> <<>>]

-----------------------------------------------------------------------------
(* EditorStacksModel *)

\* upper bound of recently closed
MaxRecentlyClosed == 10

NoGroup == -1

\* new EditorGroup(label): the group takes the next id
newEditorGroup(id, label) ==
    [id |-> id, label |-> label, editors |-> <<>>, mru |-> <<>>,
     preview |-> NULL, active |-> NULL, ev |-> <<>>]

\* the model as one value: the fields of EditorStacksModel, EditorGroup.IDS, and
\* of the call in progress the close() calls made (closed), the events of the
\* model (ev) and the events of its groups (gev)
Model ==
    [groups |-> groups, activeGroup |-> activeGroup,
     groupToIdentifier |-> groupToIdentifier, IDS |-> IDS,
     recentlyClosedEditors |-> recentlyClosedEditors, loaded |-> loaded,
     closed |-> {}, ev |-> <<>>, gev |-> <<>>]

\* EditorStacksModel.indexOf(group)
modelIndexOf(m, id) ==
    LET hits == { i \in 0 .. Len(m.groups) - 1 : m.groups[i + 1] = id }
    IN  IF hits = {} THEN -1 ELSE CHOOSE i \in hits : \A j \in hits : i <= j

\* EditorStacksModel.fireEvent (the paired onModelChanged carries the same group)
modelFireEvent(m, type, id) ==
    [m EXCEPT !.ev = Append(@, [type |-> type, group |-> id])]

\* the editors of the group id while the group `firing` delivers an event: that
\* group holds the editors of the event, the others are at rest
editorsDuring(m, id, firing, editorsOfFiring) ==
    IF id = firing THEN editorsOfFiring ELSE m.groupToIdentifier[id].editors

\* isOpen that looks at the active group only
isOpen_activeGroupOnly(m, editor, firing, editorsOfFiring) ==
    \E i \in 1 .. Len(m.groups) :
        /\ m.groups[i] = m.activeGroup
        /\ indexOf(editor, editorsDuring(m, m.groups[i], firing, editorsOfFiring)) >= 0

\* EditorStacksModel.isOpen(editor)
isOpen(m, editor, firing, editorsOfFiring) ==
    \E i \in 1 .. Len(m.groups) :
        indexOf(editor, editorsDuring(m, m.groups[i], firing, editorsOfFiring)) >= 0

\* editor.close(): the call is recorded with the inputs every group of the
\* model holds at that moment
closeInput(m, editor, firing, editorsOfFiring) ==
    [m EXCEPT !.closed = @ \cup
        {[editor |-> editor,
          open |-> UNION { Range(editorsDuring(m, m.groups[i], firing, editorsOfFiring)) :
                           i \in 1 .. Len(m.groups) }]}]

\* onEditorClosed that closes the modified input together with the original
onEditorClosed_subInputsTogether(m, firing, event) ==
    LET editor == event.editor
        open(e) == isOpen(m, e, firing, event.editors)
        close(mm, e) == closeInput(mm, e, firing, event.editors)
        original == getOriginalInput(editor)
        modified == getModifiedInput(editor)
        m1 == IF ~open(editor) THEN close(m, editor) ELSE m
    IN  IF ~open(editor) /\ isDiffInput(editor) /\ ~open(original)
        THEN close(close(m1, original), modified) ELSE m1

\* onEditorClosed that never shortens recentlyClosedEditors
onEditorClosed_noBound(m, firing, event) ==
    LET editor == event.editor
        open(e) == isOpen(m, e, firing, event.editors)
        close(mm, e) == closeInput(mm, e, firing, event.editors)
        m1 == IF ~open(editor) THEN close(m, editor) ELSE m
        entry == [id |-> getId(editor), value |-> factorySerialize(editor)]
    IN  IF event.pinned /\ hasEditorInputFactory(getId(editor))
        THEN [m1 EXCEPT !.recentlyClosedEditors = Append(@, entry)]
        ELSE m1

\* EditorStacksModel.onEditorClosed(event), the event being fired by `firing`
onEditorClosed(m, firing, event) ==
    LET editor == event.editor
        open(e) == isOpen(m, e, firing, event.editors)
        close(mm, e) == closeInput(mm, e, firing, event.editors)
        original == getOriginalInput(editor)
        modified == getModifiedInput(editor)
        m1 == IF ~open(editor) THEN close(m, editor) ELSE m
        m2 == IF ~open(editor) /\ isDiffInput(editor) /\ ~open(original)
              THEN close(m1, original) ELSE m1
        m3 == IF ~open(editor) /\ isDiffInput(editor) /\ ~open(modified)
              THEN close(m2, modified) ELSE m2
        entry == [id |-> getId(editor), value |-> factorySerialize(editor)]
    IN  IF event.pinned /\ hasEditorInputFactory(getId(editor))
        THEN [m3 EXCEPT !.recentlyClosedEditors =
                            SubSeq(Append(@, entry), 1, Min(Len(@) + 1, MaxRecentlyClosed))]
        ELSE m3

\* the listeners doCreateGroup registers on a group, run over the events of
\* one call on that group (l2: onEditorClosed)
RECURSIVE deliver(_, _, _)
deliver(m, firing, events) ==
    IF events = <<>> THEN m
    ELSE deliver(IF Head(events).type = "closed"
                 THEN onEditorClosed(m, firing, Head(events)) ELSE m,
                 firing, Tail(events))

\* a call on the group id that leaves it as g: the listeners run, the group is stored
onGroup(m, id, g) ==
    LET m1 == deliver(m, id, g.ev)
    IN  [m1 EXCEPT !.groupToIdentifier[id] = [g EXCEPT !.ev = <<>>],
                   !.gev = @ \o [i \in 1 .. Len(g.ev) |->
                                    [type |-> g.ev[i].type, editor |-> g.ev[i].editor,
                                     pinned |-> g.ev[i].pinned]]]

\* EditorStacksModel.setActive(group)
modelSetActive(m, id) ==
    IF m.activeGroup = id THEN m
    ELSE modelFireEvent([m EXCEPT !.activeGroup = id], "activated", id)

\* EditorStacksModel.openGroup(label, activate, index)
openGroup(m, label, activate, hasIndex, index) ==
    LET id == m.IDS
        group == newEditorGroup(id, label)
        groups1 ==
            IF hasIndex
            THEN IF index < Len(m.groups) THEN [m.groups EXCEPT ![index + 1] = id]
                 ELSE Append(m.groups, id)
            ELSE IF m.activeGroup = NoGroup THEN Append(m.groups, id)
            ELSE jsSplice(m.groups, modelIndexOf(m, m.activeGroup) + 1, 0, <<id>>)
        m1 == [m EXCEPT !.IDS = id + 1,
                        !.groups = groups1,
                        !.groupToIdentifier = [i \in DOMAIN @ \cup {id} |->
                                                  IF i = id THEN group ELSE @[i]]]
        m2 == modelFireEvent(m1, "opened", id)
    IN  IF m2.activeGroup = NoGroup \/ activate THEN modelSetActive(m2, id) ELSE m2

\* EditorStacksModel.closeGroup(group)
closeGroup(m, id) ==
    LET index == modelIndexOf(m, id)
        m1 == IF id = m.activeGroup
              THEN IF Len(m.groups) > 1
                   THEN modelSetActive(m, IF Len(m.groups) > index + 1
                                          THEN At(m.groups, index + 1)
                                          ELSE At(m.groups, index - 1))
                   ELSE [m EXCEPT !.activeGroup = NoGroup]
              ELSE m
        m2 == onGroup(m1, id, closeAllEditors(m1.groupToIdentifier[id]))
        m3 == [m2 EXCEPT !.groups = jsSplice(@, index, 1, <<>>),
                         !.groupToIdentifier = [i \in DOMAIN @ \ {id} |-> @[i]]]
    IN  IF index < 0 THEN m
        ELSE modelFireEvent(m3, "closed", id)

\* closeGroups forEach(g => this.closeGroup(g))
RECURSIVE closeEachGroup(_, _)
closeEachGroup(m, ids) ==
    IF ids = <<>> THEN m
    ELSE closeEachGroup(closeGroup(m, Head(ids)), Tail(ids))

\* closeGroups: close active unless configured to skip
closeActiveGroup(m, except) ==
    IF m.activeGroup # except THEN closeGroup(m, m.activeGroup) ELSE m

\* EditorStacksModel.closeGroups(except); except is NoGroup when it is not given
closeGroups(m, except) ==
    LET notActiveNorExcept(id) == id # m.activeGroup /\ id # except
    IN  closeActiveGroup(closeEachGroup(m, SelectSeq(m.groups, notActiveNorExcept)), except)

\* EditorStacksModel.moveGroup(group, toIndex)
moveGroup(m, id, toIndex) ==
    LET index == modelIndexOf(m, id)
    IN  IF index < 0 THEN m
        ELSE modelFireEvent(
                 [m EXCEPT !.groups = jsSplice(jsSplice(@, index, 1, <<>>), toIndex, 0, <<id>>)],
                 "moved", id)

\* EditorStacksModel.popLastClosedEditor(): the model afterwards and the input
\* returned
popLastClosedEditor(m) ==
    LET n == Len(m.recentlyClosedEditors)
    IN  IF n > 0
        THEN [m |-> [m EXCEPT !.recentlyClosedEditors = SubSeq(@, 1, n - 1)],
              result |-> factoryDeserialize(m.recentlyClosedEditors[n].value)]
        ELSE [m |-> m, result |-> NULL]

\* EditorStacksModel.clearLastClosedEditors()
clearLastClosedEditors(m) == [m EXCEPT !.recentlyClosedEditors = <<>>]

\* IEditorIdentifier: a group and an editor of it
Position(id, editor) == [group |-> id, editor |-> editor]

\* next() and previous() return null
NoPosition == Position(NoGroup, NULL)

\* next() and previous() throw: groups[0] is undefined
Thrown == [group |-> NoGroup, editor |-> NULL, thrown |-> TRUE]

\* { group, editor: group.getEditor(index) }
editorAt(m, id, index) == Position(id, At(m.groupToIdentifier[id].editors, index))

\* EditorStacksModel.next()
next(m) ==
    IF m.activeGroup = NoGroup THEN NoPosition
    ELSE LET g == m.groupToIdentifier[m.activeGroup]
             index == indexOf(g.active, g.editors)
             indexOfGroup == modelIndexOf(m, m.activeGroup)
         IN  IF index + 1 < Len(g.editors)
             THEN editorAt(m, m.activeGroup, index + 1)
             ELSE IF indexOfGroup + 1 < Len(m.groups)
             THEN editorAt(m, m.groups[indexOfGroup + 2], 0)
             ELSE IF m.groups = <<>> THEN Thrown
             ELSE editorAt(m, m.groups[1], 0)

\* EditorStacksModel.previous()
previous(m) ==
    IF m.activeGroup = NoGroup THEN NoPosition
    ELSE LET g == m.groupToIdentifier[m.activeGroup]
             index == indexOf(g.active, g.editors)
             indexOfGroup == modelIndexOf(m, m.activeGroup)
             lastOf(id) == editorAt(m, id, Len(m.groupToIdentifier[id].editors) - 1)
         IN  IF index > 0
             THEN editorAt(m, m.activeGroup, index - 1)
             ELSE IF indexOfGroup - 1 >= 0
             THEN lastOf(m.groups[indexOfGroup])
             ELSE IF m.groups = <<>> THEN Thrown
             ELSE lastOf(m.groups[Len(m.groups)])

\* the number of groups doValidate accepts
MaxValidGroups == 3

\* doValidate that accepts a group without label
doValidate_anyLabel(serialized) ==
    LET n == Len(serialized.groups)
        some(test(_)) == \E i \in 1 .. n : test(serialized.groups[i])
        noEditors(g) == Len(g.editors) = 0
        mruOutOfSync(g) == Len(g.editors) # Len(g.mru)
        invalidPreview(g) == g.hasPreview /\ g.preview \notin 0 .. Len(g.editors) - 1
    IN  IF n = 0 /\ serialized.hasActive THEN 1
        ELSE IF n # 0 /\ ~(serialized.hasActive /\ serialized.active \in 0 .. n - 1) THEN 2
        ELSE IF n > MaxValidGroups THEN 3
        ELSE IF some(noEditors) THEN 4
        ELSE IF some(mruOutOfSync) THEN 5
        ELSE IF some(invalidPreview) THEN 6
        ELSE 0

\* EditorStacksModel.doValidate(serialized); active is a number only when
\* hasActive, and groups[active] and editors[preview] are undefined outside
\* the indices of the array
doValidate(serialized) ==
    LET n == Len(serialized.groups)
        some(test(_)) == \E i \in 1 .. n : test(serialized.groups[i])
        noEditors(g) == Len(g.editors) = 0
        mruOutOfSync(g) == Len(g.editors) # Len(g.mru)
        invalidPreview(g) == g.hasPreview /\ g.preview \notin 0 .. Len(g.editors) - 1
        noLabel(g) == g.label = ""
    IN  IF n = 0 /\ serialized.hasActive THEN 1
        ELSE IF n # 0 /\ ~(serialized.hasActive /\ serialized.active \in 0 .. n - 1) THEN 2
        ELSE IF n > MaxValidGroups THEN 3
        ELSE IF some(noEditors) THEN 4
        ELSE IF some(mruOutOfSync) THEN 5
        ELSE IF some(invalidPreview) THEN 6
        ELSE IF some(noLabel) THEN 7
        ELSE 0

\* serialized.groups.map(s => this.doCreateGroup(s)) and the fill of
\* groupToIdentifier
RECURSIVE createGroups(_, _)
createGroups(m, serializedGroups) ==
    IF serializedGroups = <<>> THEN m
    ELSE LET id == m.IDS
             group == deserialize(id, Head(serializedGroups))
         IN  createGroups([m EXCEPT !.IDS = id + 1,
                                    !.groups = Append(@, id),
                                    !.groupToIdentifier = [i \in DOMAIN @ \cup {id} |->
                                                              IF i = id THEN group ELSE @[i]]],
                          Tail(serializedGroups))

\* load, the part after doValidate has accepted the record
applySerialized(m, serialized) ==
    LET m1 == createGroups(m, serialized.groups)
    IN  [m1 EXCEPT !.activeGroup =
                       IF serialized.hasActive /\ serialized.active \in 0 .. Len(m1.groups) - 1
                       THEN m1.groups[serialized.active + 1] ELSE NoGroup,
                   !.recentlyClosedEditors = serialized.lastClosed]

\* the error a call ends with; NoError when it returns
NoError == "none"

\* JSON.parse(modelRaw): a SyntaxError when the stored text is not JSON
jsonParseError(raw) == IF raw.parses THEN NoError ELSE "SyntaxError"

\* serialized.groups.length in doValidate: a TypeError when the parsed value
\* has no groups
doValidateError(serialized) == IF serialized.hasGroups THEN NoError ELSE "TypeError"

\* the error load() ends with: nothing in load catches the errors of
\* JSON.parse and doValidate
loadError(ws) ==
    IF ws.filesToOpen \/ ws.modelRaw = <<>> THEN NoError
    ELSE IF jsonParseError(ws.modelRaw[1]) # NoError THEN jsonParseError(ws.modelRaw[1])
    ELSE doValidateError(ws.modelRaw[1])

\* the editors migrate() opens: one group each for the first three
MaxLegacyGroups == 3

\* the error the try block of migrate() ends with: JSON.parse of a text that is
\* not JSON, or getEditorInputFactory(inputId).deserialize for an input type
\* without factory
migrateError(legacy) ==
    IF ~legacy.parses THEN "SyntaxError"
    ELSE IF \E i \in 1 .. Len(legacy.editors) : ~hasEditorInputFactory(legacy.editors[i].id)
    THEN "TypeError"
    ELSE NoError

\* migrate(): const group = this.openGroup('', true);
\* group.openEditor(editor, { active: true })
RECURSIVE openLegacyGroups(_, _)
openLegacyGroups(m, editors) ==
    IF editors = <<>> THEN m
    ELSE LET id == m.IDS
             m1 == openGroup(m, "", TRUE, FALSE, 0)
             g == openEditor(m1.groupToIdentifier[id], Head(editors),
                             Options(FALSE, TRUE, FALSE, 0), Right)
         IN  openLegacyGroups(onGroup(m1, id, g), Tail(editors))

\* EditorStacksModel.migrate(): the fields of the model afterwards
migrate(m, ws) ==
    IF ws.legacyModelRaw = <<>> THEN m
    ELSE LET legacy == ws.legacyModelRaw[1]
             editors == [i \in 1 .. Len(legacy.editors) |->
                            factoryDeserialize(legacy.editors[i].value)]
         IN  IF migrateError(legacy) # NoError
             THEN [m EXCEPT !.groups = <<>>, !.activeGroup = NoGroup,
                            !.groupToIdentifier = << >>, !.recentlyClosedEditors = <<>>]
             ELSE openLegacyGroups(m, SubSeq(editors, 1,
                                             IF Len(editors) > MaxLegacyGroups
                                             THEN MaxLegacyGroups ELSE Len(editors)))

\* EditorStacksModel.migrate(): the storage afterwards; the legacy key is
\* removed at the end of the try block
migrateStorage(ws) ==
    IF ws.legacyModelRaw # <<>> /\ migrateError(ws.legacyModelRaw[1]) = NoError
    THEN [ws EXCEPT !.legacyModelRaw = <<>>]
    ELSE ws

\* load that applies the stored record without validating it
load_noValidation(m, ws) ==
    IF ws.filesToOpen THEN m
    ELSE IF ws.modelRaw # <<>>
    THEN IF loadError(ws) # NoError THEN m
         ELSE applySerialized(m, ws.modelRaw[1])
    ELSE migrate(m, ws)

\* EditorStacksModel.load(), the fields of the model when it returns or
\* raises
load(m, ws) ==
    IF ws.filesToOpen THEN m
    ELSE IF ws.modelRaw # <<>>
    THEN IF loadError(ws) # NoError THEN m
         ELSE IF doValidate(ws.modelRaw[1]) # 0 THEN m
         ELSE applySerialized(m, ws.modelRaw[1])
    ELSE migrate(m, ws)

\* EditorStacksModel.load(): the storage afterwards
loadStorage(ws) ==
    IF ws.filesToOpen \/ ws.modelRaw # <<>> THEN ws ELSE migrateStorage(ws)

\* EditorStacksModel.ensureLoaded(): the fields of the model afterwards
ensureLoaded(m, ws) ==
    IF m.loaded THEN m ELSE load([m EXCEPT !.loaded = TRUE], ws)

\* EditorStacksModel.ensureLoaded(): the storage afterwards
ensureLoadedStorage(m, ws) ==
    IF m.loaded THEN ws ELSE loadStorage(ws)

\* EditorStacksModel.renameGroup(group, label)
renameGroup(m, id, label) ==
    IF m.groupToIdentifier[id].label = label THEN m
    ELSE modelFireEvent([m EXCEPT !.groupToIdentifier[id].label = label], "renamed", id)

\* serializableGroups that keeps the groups without serializable editor
serializableGroups_keepsEmpty(m) ==
    [i \in 1 .. Len(m.groups) |-> serialize(m.groupToIdentifier[m.groups[i]])]

\* this._groups.map(g => g.serialize()).filter(g => g.editors.length > 0)
serializableGroups(m) ==
    LET notEmpty(g) == Len(g.editors) > 0
    IN  SelectSeq([i \in 1 .. Len(m.groups) |-> serialize(m.groupToIdentifier[m.groups[i]])],
                  notEmpty)

\* EditorStacksModel.serialize(), as JSON.stringify writes it and JSON.parse
\* reads it: active is a number only when hasActive
modelSerialize(m) ==
    LET serialized == serializableGroups(m)
    IN  [parses |-> TRUE, hasGroups |-> TRUE,
         groups |-> serialized,
         hasActive |-> Len(serialized) > 0,
         active |-> IF Len(serialized) > 0 /\ Len(serialized) = Len(m.groups)
                    THEN modelIndexOf(m, m.activeGroup) ELSE 0,
         lastClosed |-> m.recentlyClosedEditors]

\* EditorStacksModel.save(): the storage afterwards
save(m, ws) == [ws EXCEPT !.modelRaw = <<modelSerialize(m)>>]

-----------------------------------------------------------------------------
(* GroupSpec: one EditorGroup driven through its public operations *)

\* grp as a call finds it: the event log holds the events of one call only
Begin == [grp EXCEPT !.ev = <<>>]

Call(op, editor, options, openNext, dir, toIndex) ==
    [op |-> op, editor |-> editor, options |-> options, openNext |-> openNext,
     dir |-> dir, toIndex |-> toIndex, pre |-> Begin, direction |-> direction]

NoOptions == Options(FALSE, FALSE, FALSE, 0)

NoCall ==
    [op |-> "none", editor |-> NULL, options |-> NoOptions, openNext |-> TRUE,
     dir |-> NoDirection, toIndex |-> 0, pre |-> EmptyGroup, direction |-> Right]

\* the last call on the model: operation, arguments, the close() calls made
\* during it, the events the model fired and the events its groups fired
ModelCall(op, group, editor, m) ==
    [op |-> op, group |-> group, editor |-> editor, closed |-> m.closed,
     ev |-> m.ev, gev |-> m.gev]

NoModelCall ==
    [op |-> "none", group |-> NoGroup, editor |-> NULL, closed |-> {},
     ev |-> <<>>, gev |-> <<>>]

\* a group view with no editor dirty, none open in another group, nothing
\* pending; resetting are the pending openings of doCloseActiveEditor, which
\* set ignoreOpenEditorErrors to false when they settle; notifications counts
\* the error notifications since the last call of the user; target is the
\* group of another view, prevented and disposed tell of the last moveEditor
\* whether a listener prevented the opening and which inputs it closed
NoView ==
    [pc |-> "idle", editor |-> NULL, veto |-> <<>>, dirty |-> {}, other |-> {},
     pending |-> {}, enablePreview |-> TRUE, wasOpen |-> FALSE, wasDirty |-> FALSE,
     wasInOther |-> FALSE, openFailed |-> FALSE,
     ignoreOpenEditorErrors |-> FALSE, resetting |-> {}, notifications |-> 0,
     target |-> EmptyGroup, prevented |-> FALSE, disposed |-> {}]

\* a workspace opened without files to open and with nothing stored
EmptyWorkspace == [filesToOpen |-> FALSE, modelRaw |-> <<>>, legacyModelRaw |-> <<>>]

\* the model of a workspace with nothing stored, after its first access:
\* ensureLoaded() has run and load() has found nothing
ModelInit ==
    /\ groups = <<>>
    /\ activeGroup = NoGroup
    /\ groupToIdentifier = << >>
    /\ IDS = 0
    /\ recentlyClosedEditors = <<>>
    /\ mlast = NoModelCall
    /\ workspace = EmptyWorkspace
    /\ view = NoView
    /\ loaded = TRUE

GroupInit ==
    /\ grp = EmptyGroup
    /\ last = NoCall

Init ==
    /\ GroupInit
    /\ ModelInit
    /\ direction = Right

\* no call is being observed
Idle == last = NoCall

\* the caller has seen the outcome of the last call: its record and its events
\* are dropped
Return ==
    /\ ~Idle
    /\ last' = NoCall
    /\ grp' = Begin
    /\ UNCHANGED <<direction, modelVars>>

SetOpenEditorDirection ==
    \E d \in {Left, Right} :
        /\ Idle
        /\ direction' = d
        /\ UNCHANGED <<grp, last, modelVars>>

OpenEditor ==
    \E editor \in EditorInputs, pinned \in BOOLEAN, active \in BOOLEAN, hasIndex \in BOOLEAN :
      \E index \in (IF hasIndex THEN 0 .. Len(grp.editors) ELSE {0}) :
        LET options == Options(pinned, active, hasIndex, index) IN
        /\ Idle
        /\ grp' = openEditor(Begin, editor, options, direction)
        /\ last' = Call("openEditor", editor, options, TRUE, NoDirection, 0)
        /\ UNCHANGED <<direction, modelVars>>

CloseEditor ==
    \E editor \in EditorInputs, openNext \in BOOLEAN :
        /\ Idle
        /\ grp' = closeEditor(Begin, editor, openNext)
        /\ last' = Call("closeEditor", editor, NoOptions, openNext, NoDirection, 0)
        /\ UNCHANGED <<direction, modelVars>>

CloseEditors ==
    \E except \in EditorInputs, dir \in {Left, Right, NoDirection} :
        /\ Idle
        /\ grp' = closeEditors(Begin, except, dir)
        /\ last' = Call("closeEditors", except, NoOptions, TRUE, dir, 0)
        /\ UNCHANGED <<direction, modelVars>>

CloseAllEditors ==
    /\ Idle
    /\ grp' = closeAllEditors(Begin)
    /\ last' = Call("closeAllEditors", NULL, NoOptions, TRUE, NoDirection, 0)
    /\ UNCHANGED <<direction, modelVars>>

MoveEditor ==
    \E editor \in EditorInputs, toIndex \in 0 .. NumEditors - 1 :
        /\ Idle
        /\ toIndex < Max(Len(grp.editors), 1)
        /\ grp' = moveEditor(Begin, editor, toIndex)
        /\ last' = Call("moveEditor", editor, NoOptions, TRUE, NoDirection, toIndex)
        /\ UNCHANGED <<direction, modelVars>>

SetActive ==
    \E editor \in EditorInputs :
        /\ Idle
        /\ grp' = setActive(Begin, editor)
        /\ last' = Call("setActive", editor, NoOptions, TRUE, NoDirection, 0)
        /\ UNCHANGED <<direction, modelVars>>

Pin ==
    \E editor \in EditorInputs :
        /\ Idle
        /\ grp' = pin(Begin, editor)
        /\ last' = Call("pin", editor, NoOptions, TRUE, NoDirection, 0)
        /\ UNCHANGED <<direction, modelVars>>

Unpin ==
    \E editor \in EditorInputs :
        /\ Idle
        /\ grp' = unpin(Begin, editor)
        /\ last' = Call("unpin", editor, NoOptions, TRUE, NoDirection, 0)
        /\ UNCHANGED <<direction, modelVars>>

GroupNext ==
    \/ Return
    \/ SetOpenEditorDirection
    \/ OpenEditor
    \/ CloseEditor
    \/ CloseEditors
    \/ CloseAllEditors
    \/ MoveEditor
    \/ SetActive
    \/ Pin
    \/ Unpin

GroupSpec == Init /\ [][GroupNext]_vars

-----------------------------------------------------------------------------
(* ModelSpec: an EditorStacksModel and its groups driven through openGroup, *)
(* openEditor, closeEditor and closeGroup                                   *)

\* the inputs the groups of the model are driven with
ModelInputs == {1, DiffInput}

Labels == {"L"}

\* the groups a caller holds: getGroup(id) of every id that is mapped
GroupIds == DOMAIN groupToIdentifier

ModelIdle == mlast = NoModelCall

\* the fields of the model after a call
Commit(m, call) ==
    /\ groups' = m.groups
    /\ activeGroup' = m.activeGroup
    /\ groupToIdentifier' = m.groupToIdentifier
    /\ IDS' = m.IDS
    /\ recentlyClosedEditors' = m.recentlyClosedEditors
    /\ mlast' = call
    /\ loaded' = m.loaded
    /\ UNCHANGED <<grp, last, direction, workspace, view>>

\* the caller has seen the outcome of the last call
ModelReturn ==
    /\ ~ModelIdle
    /\ mlast' = NoModelCall
    /\ UNCHANGED <<groups, activeGroup, groupToIdentifier, IDS, recentlyClosedEditors>>
    /\ UNCHANGED <<grp, last, direction, workspace, view, loaded>>

OpenGroup ==
    \E label \in Labels, activate \in BOOLEAN, hasIndex \in BOOLEAN :
      \E index \in (IF hasIndex THEN 0 .. Len(groups) ELSE {0}) :
        /\ ModelIdle
        /\ IDS < MaxGroupIds
        /\ LET m == openGroup(Model, label, activate, hasIndex, index)
           IN  Commit(m, ModelCall("openGroup", IDS, NULL, m))

GroupOpenEditor ==
    \E id \in GroupIds, editor \in ModelInputs, pinned \in BOOLEAN :
        /\ ModelIdle
        /\ LET g == openEditor(groupToIdentifier[id], editor,
                               Options(pinned, FALSE, FALSE, 0), direction)
               m == onGroup(Model, id, g)
           IN  Commit(m, ModelCall("openEditor", id, editor, m))

GroupCloseEditor ==
    \E id \in GroupIds, editor \in ModelInputs :
        /\ ModelIdle
        /\ LET g == closeEditor(groupToIdentifier[id], editor, TRUE)
               m == onGroup(Model, id, g)
           IN  Commit(m, ModelCall("closeEditor", id, editor, m))

CloseGroup ==
    \E id \in GroupIds :
        /\ ModelIdle
        /\ LET m == closeGroup(Model, id)
           IN  Commit(m, ModelCall("closeGroup", id, NULL, m))

ModelNext ==
    \/ ModelReturn
    \/ OpenGroup
    \/ GroupOpenEditor
    \/ GroupCloseEditor
    \/ CloseGroup

ModelSpec == Init /\ [][ModelNext]_vars

-----------------------------------------------------------------------------
(* DiffSpec: the groups of a stacks model hold a diff input and the two     *)
(* inputs it wraps                                                          *)

DiffSpecInputs == {getOriginalInput(DiffInput), getModifiedInput(DiffInput), DiffInput}

DiffOpenEditor ==
    \E id \in GroupIds, editor \in DiffSpecInputs :
        /\ ModelIdle
        /\ LET g == openEditor(groupToIdentifier[id], editor,
                               Options(TRUE, FALSE, FALSE, 0), direction)
               m == onGroup(Model, id, g)
           IN  Commit(m, ModelCall("openEditor", id, editor, m))

DiffCloseEditor ==
    \E id \in GroupIds, editor \in DiffSpecInputs :
        /\ ModelIdle
        /\ LET g == closeEditor(groupToIdentifier[id], editor, TRUE)
               m == onGroup(Model, id, g)
           IN  Commit(m, ModelCall("closeEditor", id, editor, m))

DiffNext ==
    \/ ModelReturn
    \/ OpenGroup
    \/ DiffOpenEditor
    \/ DiffCloseEditor
    \/ CloseGroup

DiffSpec == Init /\ [][DiffNext]_vars

-----------------------------------------------------------------------------
(* StacksSpec: the groups of a stacks model opened, closed, moved and       *)
(* activated; a caller keeps the groups openGroup returned, also after they *)
(* left the model                                                           *)

MaxStacksGroupIds == 3

\* every group openGroup has returned so far
KnownGroups == 0 .. IDS - 1

\* openGroup without index
NoIndex == -1

\* the last call with the model as the call found it
StacksCall(op, group, toIndex, m) ==
    [op |-> op, group |-> group, toIndex |-> toIndex, ev |-> m.ev, gev |-> m.gev,
     pre |-> [groups |-> groups, activeGroup |-> activeGroup,
              groupToIdentifier |-> groupToIdentifier]]

\* the inputs the groups of StacksSpec are filled with
StacksInputs == {1, 2}

\* openEditor(editor, {pinned: true}) on a group the caller holds
StacksOpenEditor ==
    \E id \in GroupIds, editor \in StacksInputs :
        /\ ModelIdle
        /\ LET g == openEditor(groupToIdentifier[id], editor,
                               Options(TRUE, FALSE, FALSE, 0), direction)
               m == onGroup(Model, id, g)
           IN  Commit(m, StacksCall("openEditor", id, 0, m))

StacksOpenGroup ==
    \E label \in Labels, activate \in BOOLEAN, hasIndex \in BOOLEAN :
      \E index \in (IF hasIndex THEN 0 .. Len(groups) ELSE {0}) :
        /\ ModelIdle
        /\ IDS < MaxStacksGroupIds
        /\ LET m == openGroup(Model, label, activate, hasIndex, index)
           IN  Commit(m, StacksCall("openGroup", IDS, IF hasIndex THEN index ELSE NoIndex, m))

StacksCloseGroup ==
    \E id \in KnownGroups :
        /\ ModelIdle
        /\ LET m == closeGroup(Model, id)
           IN  Commit(m, StacksCall("closeGroup", id, 0, m))

CloseGroups ==
    \E except \in KnownGroups \cup {NoGroup} :
        /\ ModelIdle
        /\ LET m == closeGroups(Model, except)
           IN  Commit(m, StacksCall("closeGroups", except, 0, m))

MoveGroup ==
    \E id \in KnownGroups, toIndex \in 0 .. MaxStacksGroupIds - 1 :
        /\ ModelIdle
        /\ toIndex < Max(Len(groups), 1)
        /\ LET m == moveGroup(Model, id, toIndex)
           IN  Commit(m, StacksCall("moveGroup", id, toIndex, m))

SetActiveGroup ==
    \E id \in KnownGroups :
        /\ ModelIdle
        /\ LET m == modelSetActive(Model, id)
           IN  Commit(m, StacksCall("setActive", id, 0, m))

StacksNext ==
    \/ ModelReturn
    \/ StacksOpenGroup
    \/ StacksOpenEditor
    \/ StacksCloseGroup
    \/ CloseGroups
    \/ MoveGroup
    \/ SetActiveGroup

StacksSpec == Init /\ [][StacksNext]_vars

-----------------------------------------------------------------------------
(* RecentSpec: file inputs opened and closed in the first group of a stacks *)
(* model, and popLastClosedEditor                                           *)

\* file inputs: their type has a factory
FileInputs == {3, 6}

\* the number of closed events of pinned file inputs in one behaviour
MaxTrackedCloses == 11

\* the closed events of pinned inputs with a factory among the group events gev
TrackedCloses(gev) ==
    LET tracked(e) == e.type = "closed" /\ e.pinned /\ hasEditorInputFactory(getId(e.editor))
    IN  SelectSeq(gev, tracked)

\* a buffer of capacity MaxRecentlyClosed that drops its oldest entry
RingPush(buffer, editor) ==
    LET all == Append(buffer, editor)
    IN  SubSeq(all, Max(1, Len(all) - MaxRecentlyClosed + 1), Len(all))

RECURSIVE RingPushAll(_, _)
RingPushAll(buffer, events) ==
    IF events = <<>> THEN buffer
    ELSE RingPushAll(RingPush(buffer, Head(events).editor), Tail(events))

\* the editors a caller keeps open in the group at a time
MaxOpenFiles == 1

\* the last call, the buffer as the call found it (pre), and what a caller
\* expects of the calls so far: ring holds the pinned file inputs closed and
\* not popped, oldest dropped beyond MaxRecentlyClosed (ringPre: before the
\* call), tracked counts the closes that were tracked
RecentCall(op, editor, result, m, ring) ==
    [op |-> op, editor |-> editor, result |-> result, gev |-> m.gev,
     pre |-> recentlyClosedEditors, ringPre |-> mlast.ring, ring |-> ring,
     tracked |-> mlast.tracked + Len(TrackedCloses(m.gev))]

\* no call is being observed
NoRecentCall(ring, tracked) ==
    [op |-> "none", editor |-> NULL, result |-> NULL, gev |-> <<>>,
     pre |-> <<>>, ringPre |-> <<>>, ring |-> ring, tracked |-> tracked]

RecentIdle == mlast.op = "none"

RecentInit ==
    /\ GroupInit
    /\ direction = Right
    /\ groups = <<>>
    /\ activeGroup = NoGroup
    /\ groupToIdentifier = << >>
    /\ IDS = 0
    /\ recentlyClosedEditors = <<>>
    /\ mlast = NoRecentCall(<<>>, 0)
    /\ workspace = EmptyWorkspace
    /\ view = NoView
    /\ loaded = TRUE

\* the caller has seen the outcome of the last call
RecentReturn ==
    /\ ~RecentIdle
    /\ mlast' = NoRecentCall(mlast.ring, mlast.tracked)
    /\ UNCHANGED <<groups, activeGroup, groupToIdentifier, IDS, recentlyClosedEditors>>
    /\ UNCHANGED <<grp, last, direction, workspace, view, loaded>>

\* the first group of the model
RecentOpenGroup ==
    \E label \in Labels :
        /\ RecentIdle
        /\ activeGroup = NoGroup
        /\ LET m == openGroup(Model, label, TRUE, FALSE, 0)
           IN  Commit(m, RecentCall("openGroup", NULL, NULL, m, mlast.ring))

RecentOpenEditor ==
    \E id \in GroupIds, editor \in FileInputs, pinned \in BOOLEAN :
        /\ RecentIdle
        /\ mlast.tracked < MaxTrackedCloses
        /\ Len(groupToIdentifier[id].editors) < MaxOpenFiles
        /\ LET g == openEditor(groupToIdentifier[id], editor,
                               Options(pinned, FALSE, FALSE, 0), direction)
               m == onGroup(Model, id, g)
           IN  Commit(m, RecentCall("openEditor", editor, NULL, m,
                                    RingPushAll(mlast.ring, TrackedCloses(m.gev))))

RecentCloseEditor ==
    \E id \in GroupIds, editor \in FileInputs :
        /\ RecentIdle
        /\ mlast.tracked < MaxTrackedCloses
        /\ LET g == closeEditor(groupToIdentifier[id], editor, TRUE)
               m == onGroup(Model, id, g)
           IN  Commit(m, RecentCall("closeEditor", editor, NULL, m,
                                    RingPushAll(mlast.ring, TrackedCloses(m.gev))))

PopLastClosedEditor ==
    \E r \in {popLastClosedEditor(Model)} :
        /\ RecentIdle
        /\ Commit(r.m, RecentCall("popLastClosedEditor", NULL, r.result, r.m,
                                  SubSeq(mlast.ring, 1, Len(mlast.ring) - 1)))

ClearLastClosedEditors ==
    \E m \in {clearLastClosedEditors(Model)} :
        /\ RecentIdle
        /\ Commit(m, RecentCall("clearLastClosedEditors", NULL, NULL, m, <<>>))

RecentNext ==
    \/ RecentReturn
    \/ RecentOpenGroup
    \/ RecentOpenEditor
    \/ RecentCloseEditor
    \/ PopLastClosedEditor
    \/ ClearLastClosedEditors

RecentSpec == RecentInit /\ [][RecentNext]_vars

-----------------------------------------------------------------------------
(* NavSpec: a caller walks the editors of the groups with next() and        *)
(* previous(), making each returned position the active one                 *)

NavInputs == {1, 2}

\* the active group and its active editor
ActivePosition(m) ==
    IF m.activeGroup = NoGroup THEN NoPosition
    ELSE Position(m.activeGroup, m.groupToIdentifier[m.activeGroup].active)

\* the caller makes position the active group and the active editor:
\* EditorStacksModel.setActive(group), then group.setActive(editor)
goTo(m, position) ==
    LET m1 == modelSetActive(m, position.group)
        g == m1.groupToIdentifier[position.group]
    IN  IF position.editor = NULL THEN m1
        ELSE onGroup(m1, position.group, setActive(g, position.editor))

NavCall(op, from, result) == [op |-> op, from |-> from, result |-> result]

NavOpenGroup ==
    \E label \in Labels, activate \in BOOLEAN, hasIndex \in BOOLEAN :
      \E index \in (IF hasIndex THEN 0 .. Len(groups) ELSE {0}) :
        /\ ModelIdle
        /\ IDS < MaxStacksGroupIds
        /\ LET m == openGroup(Model, label, activate, hasIndex, index)
           IN  Commit(m, NavCall("openGroup", ActivePosition(Model), NoPosition))

NavOpenEditor ==
    \E id \in GroupIds, editor \in NavInputs :
        /\ ModelIdle
        /\ LET g == openEditor(groupToIdentifier[id], editor,
                               Options(TRUE, FALSE, FALSE, 0), direction)
               m == onGroup(Model, id, g)
           IN  Commit(m, NavCall("openEditor", ActivePosition(Model), NoPosition))

NavCloseEditor ==
    \E id \in GroupIds, editor \in NavInputs :
        /\ ModelIdle
        /\ LET g == closeEditor(groupToIdentifier[id], editor, TRUE)
               m == onGroup(Model, id, g)
           IN  Commit(m, NavCall("closeEditor", ActivePosition(Model), NoPosition))

NavigateNext ==
    \E position \in {next(Model)} :
        /\ ModelIdle
        /\ position.group # NoGroup
        /\ Commit(goTo(Model, position), NavCall("next", ActivePosition(Model), position))

NavigatePrevious ==
    \E position \in {previous(Model)} :
        /\ ModelIdle
        /\ position.group # NoGroup
        /\ Commit(goTo(Model, position), NavCall("previous", ActivePosition(Model), position))

NavNext ==
    \/ ModelReturn
    \/ NavOpenGroup
    \/ NavOpenEditor
    \/ NavCloseEditor
    \/ NavigateNext
    \/ NavigatePrevious

NavSpec == Init /\ [][NavNext]_vars

-----------------------------------------------------------------------------
(* SerialSpec: a group of file inputs and an input without a factory is     *)
(* serialized and a new group is made of the result                         *)

\* two file inputs, a second object of the resource of the first, and an
\* untitled input, which has no factory
SerialInputs == {1, 3, 6, 3 + OtherHandle}

SerialInit ==
    /\ grp = newEditorGroup(0, "L")
    /\ last = NoCall
    /\ direction = Right
    /\ groups = <<>>
    /\ activeGroup = NoGroup
    /\ groupToIdentifier = << >>
    /\ IDS = 1
    /\ recentlyClosedEditors = <<>>
    /\ mlast = NoModelCall
    /\ workspace = EmptyWorkspace
    /\ view = NoView
    /\ loaded = TRUE

SerialOpenEditor ==
    \E editor \in SerialInputs, pinned \in BOOLEAN, active \in BOOLEAN :
        LET options == Options(pinned, active, FALSE, 0) IN
        /\ Idle
        /\ grp' = openEditor(Begin, editor, options, direction)
        /\ last' = Call("openEditor", editor, options, TRUE, NoDirection, 0)
        /\ UNCHANGED <<direction, modelVars>>

SerialCloseEditor ==
    \E editor \in SerialInputs, openNext \in BOOLEAN :
        /\ Idle
        /\ grp' = closeEditor(Begin, editor, openNext)
        /\ last' = Call("closeEditor", editor, NoOptions, openNext, NoDirection, 0)
        /\ UNCHANGED <<direction, modelVars>>

SerialUnpin ==
    \E editor \in SerialInputs :
        /\ Idle
        /\ grp' = unpin(Begin, editor)
        /\ last' = Call("unpin", editor, NoOptions, TRUE, NoDirection, 0)
        /\ UNCHANGED <<direction, modelVars>>

\* new EditorGroup(group.serialize())
Restore ==
    /\ Idle
    /\ IDS < MaxGroupIds
    /\ grp' = deserialize(IDS, serialize(Begin))
    /\ IDS' = IDS + 1
    /\ last' = Call("restore", NULL, NoOptions, TRUE, NoDirection, 0)
    /\ UNCHANGED <<direction, groups, activeGroup, groupToIdentifier,
                   recentlyClosedEditors, mlast, workspace, view, loaded>>

SerialNext ==
    \/ Return
    \/ SerialOpenEditor
    \/ SerialCloseEditor
    \/ SerialUnpin
    \/ Restore

SerialSpec == SerialInit /\ [][SerialNext]_vars

-----------------------------------------------------------------------------
(* LoadSpec: a fresh model in a workspace with a stored record; the first   *)
(* access loads it                                                          *)

\* the groups of a stored record
MaxStoredGroups == 4

\* ISerializedEditorGroup values: with and without label, zero to two editors,
\* mru lists of zero to two indices, preview undefined or an index
StoredGroups ==
    { [label |-> label, editors |-> serializeEditors(editors), mru |-> mru,
       hasPreview |-> hasPreview, preview |-> preview] :
        label \in {"", "L"},
        editors \in {<<>>, <<3>>, <<3, 6>>},
        mru \in {<<>>, <<0>>, <<1, 0>>, <<0, 0>>},
        hasPreview \in BOOLEAN,
        preview \in 0 .. 1 }

\* a stored group doValidate finds nothing wrong with
GoodGroup ==
    [label |-> "L", editors |-> serializeEditors(<<3>>), mru |-> <<0>>,
     hasPreview |-> FALSE, preview |-> 0]

\* lists of stored groups: any stored group at one position, GoodGroup at the
\* others
StoredGroupLists ==
    {<<>>} \cup
    UNION { { [i \in 1 .. n |-> IF i = p THEN g ELSE GoodGroup] :
                p \in 1 .. n, g \in StoredGroups } : n \in 1 .. MaxStoredGroups }

\* the stored text of an ISerializedEditorStacksModel value: it parses, and the
\* value has groups
StoredModels ==
    { [parses |-> TRUE, hasGroups |-> TRUE,
       groups |-> gs, hasActive |-> hasActive, active |-> active, lastClosed |-> lastClosed] :
        gs \in StoredGroupLists,
        hasActive \in BOOLEAN,
        active \in 0 .. MaxStoredGroups - 1,
        lastClosed \in {<<>>, serializeEditors(<<3>>)} }

\* a stored text that is not JSON
NotJson ==
    [parses |-> FALSE, hasGroups |-> FALSE,
     groups |-> <<>>, hasActive |-> FALSE, active |-> 0, lastClosed |-> <<>>]

\* the stored text of a JSON object without groups
NoGroupsList ==
    [parses |-> TRUE, hasGroups |-> FALSE,
     groups |-> <<>>, hasActive |-> FALSE, active |-> 0, lastClosed |-> <<>>]

Workspaces ==
    { [filesToOpen |-> filesToOpen, modelRaw |-> modelRaw, legacyModelRaw |-> <<>>] :
        filesToOpen \in BOOLEAN,
        modelRaw \in {<<>>, <<NotJson>>, <<NoGroupsList>>} \cup
                     { <<serialized>> : serialized \in
                         { r \in StoredModels : r.hasActive \/ r.active = 0 } } }

LoadInit ==
    /\ GroupInit
    /\ direction = Right
    /\ groups = <<>>
    /\ activeGroup = NoGroup
    /\ groupToIdentifier = << >>
    /\ IDS = 0
    /\ recentlyClosedEditors = <<>>
    /\ mlast = NoModelCall
    /\ workspace \in Workspaces
    /\ view = NoView
    /\ loaded = FALSE

\* the stored record for which doValidate returns a code to load(), if there
\* is one
Validated(ws) == IF loadError(ws) # NoError \/ ws.filesToOpen THEN <<>> ELSE ws.modelRaw

\* ensureLoaded() of the first access: load()
Load ==
    /\ ModelIdle
    /\ LET m == ensureLoaded(Model, workspace)
       IN  Commit(m, [op |-> "load",
                      error |-> loadError(workspace),
                      invalidId |-> [i \in 1 .. Len(Validated(workspace)) |->
                                        doValidate(Validated(workspace)[i])]])

LoadNext ==
    \/ Load

LoadSpec == LoadInit /\ [][LoadNext]_vars

-----------------------------------------------------------------------------
(* TrackSpec: file inputs are opened as preview or pinned, pinned, unpinned *)
(* and closed in the one group of a model, which tracks the closed editors  *)

\* the entries of recentlyClosedEditors in one behaviour
MaxTrackedEntries == 3

\* the last call, the buffer as the call found it (pre), and the inputs that
\* were opened pinned or passed to pin so far (everPinned)
TrackCall(op, editor, m, pinnedNow) ==
    [op |-> op, editor |-> editor, gev |-> m.gev, pre |-> recentlyClosedEditors,
     everPinned |-> mlast.everPinned \cup pinnedNow]

\* no call is being observed
NoTrackCall(everPinned) ==
    [op |-> "none", editor |-> NULL, gev |-> <<>>, pre |-> <<>>, everPinned |-> everPinned]

TrackIdle == mlast.op = "none" /\ Len(recentlyClosedEditors) < MaxTrackedEntries

TrackInit ==
    /\ GroupInit
    /\ direction = Right
    /\ groups = <<>>
    /\ activeGroup = NoGroup
    /\ groupToIdentifier = << >>
    /\ IDS = 0
    /\ recentlyClosedEditors = <<>>
    /\ mlast = NoTrackCall({})
    /\ workspace = EmptyWorkspace
    /\ view = NoView
    /\ loaded = TRUE

\* the caller has seen the outcome of the last call
TrackReturn ==
    /\ mlast.op # "none"
    /\ mlast' = NoTrackCall(mlast.everPinned)
    /\ UNCHANGED <<groups, activeGroup, groupToIdentifier, IDS, recentlyClosedEditors>>
    /\ UNCHANGED <<grp, last, direction, workspace, view, loaded>>

\* the one group of the model
TrackOpenGroup ==
    \E label \in Labels :
        /\ TrackIdle
        /\ groups = <<>>
        /\ IDS < MaxGroupIds
        /\ LET m == openGroup(Model, label, TRUE, FALSE, 0)
           IN  Commit(m, TrackCall("openGroup", NULL, m, {}))

TrackOpenEditor ==
    \E id \in GroupIds, editor \in FileInputs, pinned \in BOOLEAN :
        /\ TrackIdle
        /\ LET g == openEditor(groupToIdentifier[id], editor,
                               Options(pinned, FALSE, FALSE, 0), direction)
               m == onGroup(Model, id, g)
           IN  Commit(m, TrackCall("openEditor", editor, m, IF pinned THEN {editor} ELSE {}))

TrackPin ==
    \E id \in GroupIds, editor \in FileInputs :
        /\ TrackIdle
        /\ LET m == onGroup(Model, id, pin(groupToIdentifier[id], editor))
           IN  Commit(m, TrackCall("pin", editor, m, {editor}))

TrackUnpin ==
    \E id \in GroupIds, editor \in FileInputs :
        /\ TrackIdle
        /\ LET m == onGroup(Model, id, unpin(groupToIdentifier[id], editor))
           IN  Commit(m, TrackCall("unpin", editor, m, {}))

TrackCloseEditor ==
    \E id \in GroupIds, editor \in FileInputs :
        /\ TrackIdle
        /\ LET m == onGroup(Model, id, closeEditor(groupToIdentifier[id], editor, TRUE))
           IN  Commit(m, TrackCall("closeEditor", editor, m, {}))

TrackCloseEditors ==
    \E id \in GroupIds, except \in FileInputs, dir \in {Left, Right, NoDirection} :
        /\ TrackIdle
        /\ LET m == onGroup(Model, id, closeEditors(groupToIdentifier[id], except, dir))
           IN  Commit(m, TrackCall("closeEditors", except, m, {}))

TrackCloseAllEditors ==
    \E id \in GroupIds :
        /\ TrackIdle
        /\ LET m == onGroup(Model, id, closeAllEditors(groupToIdentifier[id]))
           IN  Commit(m, TrackCall("closeAllEditors", NULL, m, {}))

TrackCloseGroup ==
    \E id \in GroupIds :
        /\ TrackIdle
        /\ LET m == closeGroup(Model, id)
           IN  Commit(m, TrackCall("closeGroup", NULL, m, {}))

TrackNext ==
    \/ TrackReturn
    \/ TrackOpenGroup
    \/ TrackOpenEditor
    \/ TrackPin
    \/ TrackUnpin
    \/ TrackCloseEditor
    \/ TrackCloseEditors
    \/ TrackCloseAllEditors
    \/ TrackCloseGroup

TrackSpec == TrackInit /\ [][TrackNext]_vars

-----------------------------------------------------------------------------
(* PersistSpec: the model of a workspace is filled in a first session and   *)
(* saved at shutdown; the model of the next session loads what was stored   *)
(* with its first access                                                    *)

MaxPersistGroupIds == 2

\* a file input and an untitled input, which has no factory
PersistInputs == {1, 3}

PersistLabels == {"L", "M"}

\* what the legacy key of the storage holds: nothing, or the editors of the
\* legacy editor part, the last with an input without factory
LegacyStored ==
    {<<>>} \cup
    { <<[parses |-> TRUE, editors |-> serializeEditors(editors)]>> :
        editors \in {<<3>>, <<3, 6>>, <<3, 1>>} }

\* the fields of a model after its construction
FreshModel ==
    [groups |-> <<>>, activeGroup |-> NoGroup, groupToIdentifier |-> << >>, IDS |-> 0,
     recentlyClosedEditors |-> <<>>, loaded |-> FALSE,
     closed |-> {}, ev |-> <<>>, gev |-> <<>>]

\* the groups of the model with their fields, in the order of the model
GroupsOf(m) == [i \in 1 .. Len(m.groups) |-> m.groupToIdentifier[m.groups[i]]]

\* the last call: whether it was the first on its model, and then the groups
\* it saw and the storage it started with
PersistCall(op, seen) ==
    [op |-> op, first |-> ~loaded,
     found |-> IF loaded THEN <<>> ELSE GroupsOf(seen),
     ws |-> IF loaded THEN EmptyWorkspace ELSE workspace]

PersistInit ==
    /\ GroupInit
    /\ direction = Right
    /\ groups = <<>>
    /\ activeGroup = NoGroup
    /\ groupToIdentifier = << >>
    /\ IDS = 0
    /\ recentlyClosedEditors = <<>>
    /\ mlast = NoModelCall
    /\ workspace \in { [EmptyWorkspace EXCEPT !.legacyModelRaw = legacy] : legacy \in LegacyStored }
    /\ view = NoView
    /\ loaded = FALSE

\* the fields of the model and the storage after a call
PersistCommit(m, ws, call) ==
    /\ groups' = m.groups
    /\ activeGroup' = m.activeGroup
    /\ groupToIdentifier' = m.groupToIdentifier
    /\ IDS' = m.IDS
    /\ recentlyClosedEditors' = m.recentlyClosedEditors
    /\ loaded' = m.loaded
    /\ workspace' = ws
    /\ mlast' = call
    /\ UNCHANGED <<grp, last, direction, view>>

\* the model and the storage as ensureLoaded() of a call leaves them
Ensured == ensureLoaded(Model, workspace)
EnsuredStorage == ensureLoadedStorage(Model, workspace)

\* the session that fills the model, or the first call of the next session
InSession == workspace.modelRaw = <<>> \/ ~loaded

\* the actions take the model m and the storage ws that ensureLoaded() leaves
\* to their call
PersistOpenGroup(m, ws) ==
    \E label \in PersistLabels, activate \in BOOLEAN :
        /\ ModelIdle /\ InSession
        /\ m.IDS < MaxPersistGroupIds
        /\ PersistCommit(openGroup(m, label, activate, FALSE, 0), ws,
                         PersistCall("openGroup", m))

PersistRenameGroup(m, ws) ==
    \E id \in GroupIds, label \in PersistLabels :
        /\ ModelIdle /\ InSession
        /\ PersistCommit(renameGroup(m, id, label), ws, PersistCall("renameGroup", m))

PersistOpenEditor ==
    \E id \in GroupIds, editor \in PersistInputs :
        /\ ModelIdle /\ InSession
        /\ PersistCommit(onGroup(Model, id,
                                 openEditor(groupToIdentifier[id], editor,
                                            Options(TRUE, FALSE, FALSE, 0), direction)),
                         workspace, PersistCall("openEditor", Model))

PersistCloseEditor ==
    \E id \in GroupIds, editor \in PersistInputs :
        /\ ModelIdle /\ InSession
        /\ PersistCommit(onGroup(Model, id, closeEditor(groupToIdentifier[id], editor, TRUE)),
                         workspace, PersistCall("closeEditor", Model))

PersistCloseGroup(m, ws) ==
    \E id \in GroupIds :
        /\ ModelIdle /\ InSession
        /\ PersistCommit(closeGroup(m, id), ws, PersistCall("closeGroup", m))

PersistMoveGroup(m, ws) ==
    \E id \in GroupIds, toIndex \in 0 .. MaxPersistGroupIds - 1 :
        /\ ModelIdle /\ InSession
        /\ toIndex < Len(groups)
        /\ PersistCommit(moveGroup(m, id, toIndex), ws, PersistCall("moveGroup", m))

PersistSetActive(m, ws) ==
    \E id \in GroupIds :
        /\ ModelIdle /\ InSession
        /\ PersistCommit(modelSetActive(m, id), ws, PersistCall("setActive", m))

\* the first call on the model is the getter of groups
GetGroups(m, ws) ==
    /\ ModelIdle /\ ~loaded
    /\ PersistCommit(m, ws, PersistCall("groups", m))

\* the first call on the model is the getter of activeGroup
GetActiveGroup(m, ws) ==
    /\ ModelIdle /\ ~loaded
    /\ PersistCommit(m, ws, PersistCall("activeGroup", m))

\* the first call on the model is getGroup(id)
GetGroup(m, ws) ==
    \E id \in 0 .. MaxPersistGroupIds - 1 :
        /\ ModelIdle /\ ~loaded
        /\ PersistCommit(m, ws, PersistCall("getGroup", m))

\* the first call on the model is groupAt(position): it reads _groups as it is
GroupAt ==
    \E position \in 0 .. MaxPersistGroupIds - 1 :
        /\ ModelIdle /\ ~loaded
        /\ PersistCommit(Model, workspace, PersistCall("groupAt", Model))

\* the first call on the model is next()
PersistNavigateNext(m, ws) ==
    /\ ModelIdle /\ ~loaded
    /\ PersistCommit(m, ws, PersistCall("next", m))

\* the first call on the model is previous()
PersistNavigatePrevious(m, ws) ==
    /\ ModelIdle /\ ~loaded
    /\ PersistCommit(m, ws, PersistCall("previous", m))

\* onShutdown() at the end of the first session: save()
Save ==
    /\ ModelIdle
    /\ workspace.modelRaw = <<>>
    /\ PersistCommit(Model, save(Model, workspace), PersistCall("save", Model))

\* the next session of the workspace: a model is constructed
Restart ==
    /\ ModelIdle
    /\ workspace.modelRaw # <<>>
    /\ loaded
    /\ PersistCommit(FreshModel, workspace, NoModelCall)

PersistNext ==
    \/ ModelReturn
    \/ \E m \in {Ensured}, ws \in {EnsuredStorage} : PersistOpenGroup(m, ws)
    \/ \E m \in {Ensured}, ws \in {EnsuredStorage} : PersistRenameGroup(m, ws)
    \/ \E m \in {Ensured}, ws \in {EnsuredStorage} : PersistCloseGroup(m, ws)
    \/ \E m \in {Ensured}, ws \in {EnsuredStorage} : PersistMoveGroup(m, ws)
    \/ \E m \in {Ensured}, ws \in {EnsuredStorage} : PersistSetActive(m, ws)
    \/ \E m \in {Ensured}, ws \in {EnsuredStorage} : GetGroups(m, ws)
    \/ \E m \in {Ensured}, ws \in {EnsuredStorage} : GetActiveGroup(m, ws)
    \/ \E m \in {Ensured}, ws \in {EnsuredStorage} : GetGroup(m, ws)
    \/ \E m \in {Ensured}, ws \in {EnsuredStorage} : PersistNavigateNext(m, ws)
    \/ \E m \in {Ensured}, ws \in {EnsuredStorage} : PersistNavigatePrevious(m, ws)
    \/ PersistOpenEditor
    \/ PersistCloseEditor
    \/ GroupAt
    \/ Save
    \/ Restart

PersistSpec == PersistInit /\ [][PersistNext]_vars

-----------------------------------------------------------------------------
(* NextEditorGroupView: the view of one group.  st is the view with its     *)
(* group: st.g is _group, st.v the rest.  No listener of onWillOpenEditor   *)
(* prevents an opening.                                                     *)

\* the options doOpenEditor hands to the group
viewOpenOptions(st, editor, pinned, inactive) ==
    LET makePinnedHere == ~st.v.enablePreview \/ editor \in st.v.dirty \/ pinned
        active == Len(st.g.editors) = 0 \/ ~inactive
    IN  Options(makePinnedHere,
                active \/ (~makePinnedHere /\ isPreview(st.g, st.g.active)),
                FALSE, 0)

\* NextEditorGroupView.doOpenEditor(editor, options): the model is updated and,
\* for an active editor, editorControl.openEditor is started
doOpenEditor(st, editor, pinned, inactive) ==
    LET options == viewOpenOptions(st, editor, pinned, inactive)
    IN  [g |-> openEditor(st.g, editor, options, Right),
         v |-> IF options.active THEN [st.v EXCEPT !.pending = @ \cup {editor}] ELSE st.v]

\* the opening of the next active editor in doCloseActiveEditor:
\* this.openEditor(nextActiveEditor, options).then(() =>
\* this.ignoreOpenEditorErrors = false)
openNextActive(st, fromError) ==
    IF st.g.active # NULL
    THEN LET st1 == IF fromError THEN [st EXCEPT !.v.ignoreOpenEditorErrors = TRUE] ELSE st
             st2 == doOpenEditor(st1, st.g.active, FALSE, FALSE)
         IN  [st2 EXCEPT !.v.resetting = @ \cup {st.g.active}]
    ELSE st

\* NextEditorGroupView.doCloseActiveEditor(focusNext, fromError)
doCloseActiveEditor(st, fromError) ==
    openNextActive([st EXCEPT !.g = closeEditor(st.g, st.g.active, TRUE)], fromError)

\* NextEditorGroupView.doCloseEditor(editor)
doCloseEditor(st, editor) ==
    IF matches(st.g.active, editor) THEN doCloseActiveEditor(st, FALSE)
    ELSE [st EXCEPT !.g = closeEditor(st.g, editor, TRUE)]

\* NextEditorGroupView.doHandleOpenEditorError(error, editor); the part is
\* created and the error is not a cancellation
doHandleOpenEditorError(st, editor) ==
    LET st1 == IF ~st.v.ignoreOpenEditorErrors
               THEN [st EXCEPT !.v.notifications = @ + 1] ELSE st
    IN  IF st1.g.active = editor THEN doCloseActiveEditor(st1, TRUE) ELSE st1

\* editorControl.openEditor(editor) of doOpenEditor settles: an error is
\* handled and not passed on, then the promise of openEditor resolves and the
\* callback of doCloseActiveEditor, if this opening has one, runs
openEditorSettles(st, editor, ok) ==
    LET st1 == [st EXCEPT !.v.pending = @ \ {editor}]
        reset == editor \in st.v.resetting
    IN  [(IF ok THEN st1 ELSE doHandleOpenEditorError(st1, editor))
            EXCEPT !.v.ignoreOpenEditorErrors = IF reset THEN FALSE ELSE @,
                   !.v.resetting = IF reset THEN @ \ {editor} ELSE @]

\* groupView.group.contains(resource || editor)
contains(g, editor) == \E i \in 1 .. Len(g.editors) : matches(g.editors[i], editor)

\* onDidEditorClose of the view for the closed events of its group: the
\* inputs editorToClose.close() is called for, those that no group of the
\* accessor contains when the event is fired
closedByView(st) ==
    { st.g.ev[i].editor : i \in { j \in 1 .. Len(st.g.ev) :
        /\ st.g.ev[j].type = "closed"
        /\ ~\E k \in 1 .. Len(st.g.ev[j].editors) :
               matches(st.g.ev[j].editors[k], st.g.ev[j].editor)
        /\ ~contains(st.v.target, st.g.ev[j].editor)
        /\ st.g.ev[j].editor \notin st.v.other } }

\* the view after the listener onDidEditorClose has run for the events of st
withClosedByView(st) == [st EXCEPT !.v.disposed = closedByView(st)]

\* doMoveEditorAcrossGroups, first half: target.openEditor(editor, options);
\* a listener of onWillOpenEditor of the target may prevent the opening
moveOpensInTarget(st, editor, inactive, prevented) ==
    IF prevented THEN st
    ELSE LET opened == doOpenEditor([g |-> st.v.target, v |-> st.v], editor, FALSE, inactive)
         IN  [st EXCEPT !.v.target = [opened.g EXCEPT !.ev = <<>>]]

\* doMoveEditorAcrossGroups, second half: this.doCloseEditor(editor, false)
moveClosesInSource(st, editor) == withClosedByView(doCloseEditor(st, editor))

\* closeEditor once handleDirty has resolved to veto
afterHandleDirty(st, editor, veto) ==
    LET st1 == IF veto THEN st ELSE doCloseEditor(st, editor)
    IN  [st1 EXCEPT !.v.pc = "done", !.v.veto = <<veto>>]

-----------------------------------------------------------------------------
(* ViewSpec: a group view whose editors become dirty; closeEditor waits for  *)
(* the opening of the editor, the save confirmation, the save or the revert  *)

ViewInputs == {1, 2}

ConfirmResults == {"SAVE", "DONT_SAVE", "CANCEL"}

\* a view of an empty group; partOptions.enablePreview is on or off
ViewInit ==
    /\ GroupInit
    /\ direction = Right
    /\ groups = <<>>
    /\ activeGroup = NoGroup
    /\ groupToIdentifier = << >>
    /\ IDS = 0
    /\ recentlyClosedEditors = <<>>
    /\ mlast = NoModelCall
    /\ workspace = EmptyWorkspace
    /\ view \in { [NoView EXCEPT !.enablePreview = b] : b \in BOOLEAN }
    /\ loaded = TRUE

\* the view with its group
ViewState == [g |-> grp, v |-> view]

\* the view with its group as a call of the user finds them
ViewBegin == [g |-> Begin, v |-> [view EXCEPT !.notifications = 0]]

\* no call on the view is in progress
ViewIdle == view.pc = "idle" /\ view.pending = {}

ViewCommit(st) ==
    /\ grp' = st.g
    /\ view' = st.v
    /\ UNCHANGED <<last, direction, groups, activeGroup, groupToIdentifier, IDS,
                   recentlyClosedEditors, mlast, workspace, loaded>>

\* openEditor(editor, options) of the view
ViewOpenEditor ==
    \E editor \in ViewInputs, pinned \in BOOLEAN, inactive \in BOOLEAN :
        /\ ViewIdle
        /\ ViewCommit(doOpenEditor(ViewBegin, editor, pinned, inactive))

\* the user edits an editor of the group
MakeDirty ==
    \E editor \in ViewInputs :
        /\ ViewIdle
        /\ indexOf(editor, grp.editors) >= 0
        /\ ViewCommit([ViewState EXCEPT !.v.dirty = @ \cup {editor}])

\* another group view opens the editor
OpenInOtherGroup ==
    \E editor \in ViewInputs :
        /\ ViewIdle
        /\ editor \notin view.other
        /\ ViewCommit([ViewState EXCEPT !.v.other = @ \cup {editor}])

\* closeEditor(editor) of the view up to the first promise that is pending
ViewCloseEditor ==
    \E editor \in ViewInputs :
        LET st == [g |-> Begin,
                   v |-> [view EXCEPT !.notifications = 0,
                                      !.editor = editor,
                                      !.wasOpen = indexOf(editor, grp.editors) >= 0,
                                      !.wasDirty = editor \in view.dirty,
                                      !.wasInOther = editor \in view.other]]
        IN  /\ ViewIdle
            /\ IF editor \notin view.dirty \/ editor \in view.other
               THEN ViewCommit(afterHandleDirty(st, editor, FALSE))
               ELSE ViewCommit([doOpenEditor(st, editor, FALSE, FALSE)
                                   EXCEPT !.v.pc = "opening", !.v.pending = {}])

\* editorControl.openEditor of doHandleDirty settles; an error is handled by
\* doHandleOpenEditorError and not passed on, confirmSave() is called
OpenSettles ==
    \E ok \in BOOLEAN :
        /\ view.pc = "opening"
        /\ ViewCommit([(IF ok THEN ViewState
                        ELSE doHandleOpenEditorError(
                                 [ViewState EXCEPT !.v.openFailed = TRUE], view.editor))
                           EXCEPT !.v.pc = "confirming"])

\* confirmSave() resolves; the editor may have been saved meanwhile
ConfirmSaveResolves ==
    \E res \in ConfirmResults, saved \in BOOLEAN :
        LET st == [ViewState EXCEPT !.v.dirty = IF saved THEN @ \ {view.editor} ELSE @]
        IN  /\ view.pc = "confirming"
            /\ IF saved THEN ViewCommit(afterHandleDirty(st, view.editor, res = "CANCEL"))
               ELSE IF res = "SAVE" THEN ViewCommit([st EXCEPT !.v.pc = "saving"])
               ELSE IF res = "DONT_SAVE" THEN ViewCommit([st EXCEPT !.v.pc = "reverting"])
               ELSE ViewCommit(afterHandleDirty(st, view.editor, TRUE))

\* editor.save() resolves
SaveResolves ==
    \E ok \in BOOLEAN :
        /\ view.pc = "saving"
        /\ ViewCommit(afterHandleDirty(
               [ViewState EXCEPT !.v.dirty = IF ok THEN @ \ {view.editor} ELSE @],
               view.editor, ~ok))

\* editor.revert() resolves or fails
RevertSettles ==
    \E outcome \in {"ok", "notOk", "error"} :
        /\ view.pc = "reverting"
        /\ IF outcome = "error" THEN ViewCommit([ViewState EXCEPT !.v.pc = "softReverting"])
           ELSE ViewCommit(afterHandleDirty(
                    [ViewState EXCEPT !.v.dirty = IF outcome = "ok" THEN @ \ {view.editor} ELSE @],
                    view.editor, outcome # "ok"))

\* editor.revert({ soft: true }) resolves
SoftRevertResolves ==
    \E ok \in BOOLEAN :
        /\ view.pc = "softReverting"
        /\ ViewCommit(afterHandleDirty(
               [ViewState EXCEPT !.v.dirty = IF ok THEN @ \ {view.editor} ELSE @],
               view.editor, ~ok))

\* editorControl.openEditor of an opening nobody waits for settles
PendingOpenSettles ==
    \E editor \in view.pending, ok \in BOOLEAN :
        ViewCommit(openEditorSettles(ViewState, editor, ok))

\* the caller of closeEditor has seen its promise resolve
ViewReturn ==
    /\ view.pc = "done"
    /\ ViewCommit([g |-> Begin,
                   v |-> [view EXCEPT !.pc = "idle", !.editor = NULL, !.veto = <<>>,
                                      !.wasOpen = FALSE, !.wasDirty = FALSE,
                                      !.wasInOther = FALSE, !.openFailed = FALSE]])

ViewNext ==
    \/ ViewOpenEditor
    \/ MakeDirty
    \/ OpenInOtherGroup
    \/ ViewCloseEditor
    \/ OpenSettles
    \/ ConfirmSaveResolves
    \/ SaveResolves
    \/ RevertSettles
    \/ SoftRevertResolves
    \/ PendingOpenSettles
    \/ ViewReturn

ViewSpec == ViewInit /\ [][ViewNext]_vars

-----------------------------------------------------------------------------
(* MoveSpec: a group view and the group of a second view; editors are       *)
(* opened in both and moved from the first to the second                    *)

\* openEditor(editor, { pinned }) of the target view
TargetOpenEditor ==
    \E editor \in ViewInputs, pinned \in BOOLEAN :
        /\ ViewIdle
        /\ ViewCommit([ViewBegin EXCEPT !.v.target =
               [doOpenEditor([g |-> view.target, v |-> view], editor, pinned, FALSE).g
                   EXCEPT !.ev = <<>>]])

\* moveEditor(editor, target, options) up to the call of target.openEditor
MoveEditorOpens ==
    \E editor \in ViewInputs, inactive \in BOOLEAN, prevented \in BOOLEAN :
        /\ ViewIdle
        /\ ViewCommit(moveOpensInTarget(
               [ViewBegin EXCEPT !.v.pc = "moving", !.v.editor = editor,
                                 !.v.wasOpen = contains(grp, editor),
                                 !.v.wasInOther = contains(view.target, editor),
                                 !.v.prevented = prevented, !.v.disposed = {}],
               editor, inactive, prevented))

\* moveEditor from the return of target.openEditor to its end
MoveEditorCloses ==
    /\ view.pc = "moving"
    /\ ViewCommit([moveClosesInSource(ViewState, view.editor) EXCEPT !.v.pc = "moved"])

\* the caller of moveEditor has seen it return
MoveReturn ==
    /\ view.pc = "moved"
    /\ ViewCommit([g |-> Begin,
                   v |-> [view EXCEPT !.pc = "idle", !.editor = NULL, !.wasOpen = FALSE,
                                      !.wasInOther = FALSE, !.prevented = FALSE,
                                      !.disposed = {}]])

MoveNext ==
    \/ ViewOpenEditor
    \/ TargetOpenEditor
    \/ MoveEditorOpens
    \/ MoveEditorCloses
    \/ MoveReturn
    \/ PendingOpenSettles

MoveSpec == ViewInit /\ [][MoveNext]_vars

-----------------------------------------------------------------------------
(* CascadeSpec: editors are opened in a group view; an opening that fails   *)
(* closes the editor and opens the next active one, which may fail as well  *)

CascadeInputs == {1, 2, 3}

\* openEditor(editor, { pinned: true }) of the view, once the openings before
\* have settled
CascadeOpenEditor ==
    \E editor \in CascadeInputs, inactive \in BOOLEAN :
        /\ ViewIdle
        /\ ViewCommit(doOpenEditor(ViewBegin, editor, TRUE, inactive))

CascadeNext ==
    \/ CascadeOpenEditor
    \/ PendingOpenSettles

CascadeSpec == ViewInit /\ [][CascadeNext]_vars

-----------------------------------------------------------------------------
(* Properties of one EditorGroup (GroupSpec) *)

pre == last.pre

\* the positions of list whose input matches editor
Matching(editor, list) == { i \in 1 .. Len(list) : matches(list[i], editor) }

IsOpen(g, editor) == indexOf(editor, g.editors) >= 0

\* C1: after any sequence of openEditor, closeEditor, closeEditors,
\* closeAllEditors, moveEditor, setActive, pin and unpin on an initially empty
\* group, editors and mru have the same length and every input of one matches
\* exactly one input of the other.
C1_MruIsPermutationOfEditors ==
    /\ Len(grp.editors) = Len(grp.mru)
    /\ \A e \in Range(grp.editors) : Cardinality(Matching(e, grp.mru)) = 1
    /\ \A e \in Range(grp.mru) : Cardinality(Matching(e, grp.editors)) = 1

C1_Witness ==
    /\ last.op = "closeEditor"
    /\ Len(pre.editors) = 3
    /\ Len(grp.editors) = 2
    /\ grp.mru # grp.editors

\* C2: in every reachable state the active editor is null or matches an element
\* of editors.
C2_ActiveIsOpen ==
    grp.active = NULL \/ IsOpen(grp, grp.active)

\* C3: the active editor is non-null exactly when mru is non-empty, and then
\* mru[0] matches the active editor.
C3_ActiveIsMruHead ==
    /\ (grp.active # NULL) <=> (grp.mru # <<>>)
    /\ grp.active # NULL => matches(At(grp.mru, 0), grp.active)

\* C4: the preview editor is null or matches exactly one element of editors.
C4_PreviewIsOpenOnce ==
    grp.preview = NULL \/ Cardinality(Matching(grp.preview, grp.editors)) = 1

C4_Witness ==
    /\ last.op = "openEditor"
    /\ pre.preview # NULL
    /\ grp.preview # NULL
    /\ ~matches(pre.preview, grp.preview)
    /\ Len(grp.editors) >= 2

\* C5: editors never holds two inputs that match each other, and openEditor of
\* an input matching one already present leaves the number of editors and the
\* set of open inputs unchanged, whatever the pinned, active and index options.
C5_NoDuplicateEditors ==
    /\ \A e \in Range(grp.editors) : Cardinality(Matching(e, grp.editors)) = 1
    /\ (last.op = "openEditor" /\ IsOpen(pre, last.editor)) =>
          /\ Len(grp.editors) = Len(pre.editors)
          /\ Range(grp.editors) = Range(pre.editors)

C5_Witness ==
    /\ last.op = "openEditor"
    /\ IsOpen(pre, last.editor)
    /\ last.options.pinned /\ last.options.active /\ last.options.hasIndex
    /\ grp.editors # pre.editors
    /\ Len(grp.editors) = 3

\* the call was openEditor of an input that was not in the group
OpenedNew == last.op = "openEditor" /\ ~IsOpen(pre, last.editor)

\* C6: when the group has a preview P and openEditor is called without pinned
\* for an input H that is not present, afterwards P is in neither editors nor
\* mru, H is in editors and is the preview, and the number of editors is as
\* before.
C6_PreviewIsReplaced ==
    (OpenedNew /\ ~last.options.pinned /\ pre.preview # NULL) =>
        /\ indexOf(pre.preview, grp.editors) = -1
        /\ indexOf(pre.preview, grp.mru) = -1
        /\ IsOpen(grp, last.editor)
        /\ matches(grp.preview, last.editor)
        /\ Len(grp.editors) = Len(pre.editors)

C6_Witness ==
    /\ OpenedNew /\ ~last.options.pinned /\ pre.preview # NULL
    /\ Len(pre.editors) = 2
    /\ ~matches(pre.active, pre.preview)

\* the call was closeEditor(h, true) of the active editor h, which was open
ClosedActive ==
    /\ last.op = "closeEditor" /\ last.openNext
    /\ IsOpen(pre, last.editor)
    /\ matches(pre.active, last.editor)

\* C7: closeEditor(h) with openNext on the active input h: with two or more
\* inputs in the group the input that was mru[1] is the active editor and
\* mru[0] afterwards; if h was the only input, active is null afterwards.
C7_CloseActivePromotesNext ==
    ClosedActive =>
        IF Len(pre.editors) >= 2
        THEN /\ matches(grp.active, At(pre.mru, 1))
             /\ matches(At(grp.mru, 0), At(pre.mru, 1))
        ELSE grp.active = NULL

\* C8: pin(h) clears the preview if and only if h matched the preview before
\* the call; editors, mru and active are unchanged, and when h was not the
\* preview no event is fired.
C8_PinClearsOnlyPreview ==
    last.op = "pin" =>
        /\ grp.editors = pre.editors
        /\ grp.mru = pre.mru
        /\ grp.active = pre.active
        /\ IF matches(pre.preview, last.editor)
           THEN grp.preview = NULL
           ELSE grp.preview = pre.preview /\ grp.ev = <<>>

C8_Witness ==
    /\ last.op = "pin"
    /\ matches(pre.preview, last.editor)
    /\ Len(grp.editors) >= 2
    /\ grp.preview = NULL
    /\ IsOpen(grp, last.editor)

\* C9: with the insert direction right and no explicit index, an input newly
\* added by openEditor ends up immediately after the editor that was active
\* before the call, both when it is pinned and when it replaces a preview.
C9_NewEditorRightOfActive ==
    (/\ OpenedNew
     /\ last.direction = Right
     /\ ~last.options.hasIndex
     /\ IsOpen(pre, pre.active)
     /\ IsOpen(grp, pre.active)) =>
        indexOf(last.editor, grp.editors) = indexOf(pre.active, grp.editors) + 1

-----------------------------------------------------------------------------
(* Properties of the stacks model (ModelSpec) *)

\* some group of the model holds an input matching editor
HeldByModel(editor) ==
    \E i \in 1 .. Len(groups) : IsOpen(groupToIdentifier[groups[i]], editor)

\* the last call made a group fire the closed event of editor
FiredClosed(editor) ==
    \E i \in 1 .. Len(mlast.gev) :
        mlast.gev[i].type = "closed" /\ matches(mlast.gev[i].editor, editor)

-----------------------------------------------------------------------------
(* Properties of diff inputs in the stacks model (DiffSpec) *)

\* the last call made close() be invoked on editor
Closed(editor) == \E c \in mlast.closed : c.editor = editor

\* the last call was closeEditor of the diff input on a group that held it
ClosedDiff ==
    /\ mlast.op = "closeEditor"
    /\ isDiffInput(mlast.editor)
    /\ FiredClosed(mlast.editor)

C11_WitnessStillOpen ==
    /\ ClosedDiff
    /\ HeldByModel(mlast.editor)
    /\ ~HeldByModel(getOriginalInput(mlast.editor))
    /\ mlast.closed = {}

-----------------------------------------------------------------------------
(* Properties of the groups of the stacks model (StacksSpec) *)

InGroups(id) == \E i \in 1 .. Len(groups) : groups[i] = id

\* C12: in every state of the stacks model reachable by openGroup (with or
\* without an explicit index, with activate true or false), closeGroup,
\* closeGroups, moveGroup and setActive, activeGroup is null or is an element
\* of groups.
C12_ActiveGroupIsInGroups ==
    activeGroup = NoGroup \/ InGroups(activeGroup)

\* the last call on the group named an input that was not in it
AbsentEditorCall ==
    /\ last.op \in {"closeEditor", "moveEditor", "setActive"}
    /\ ~IsOpen(pre, last.editor)

\* the last call on the model named a group that was not in groups
AbsentGroupCall ==
    /\ mlast.op \in {"closeGroup", "moveGroup", "setActive"}
    /\ \A i \in 1 .. Len(mlast.pre.groups) : mlast.pre.groups[i] # mlast.group

\* the group part of C13: closeEditor, moveEditor and setActive of an input that
\* is not in editors leave the group as it was and fire no event
C13_AbsentEditorIsNoOp ==
    AbsentEditorCall => grp = pre

\* the model part of C13: closeGroup, moveGroup and setActive of a group that is
\* not in groups leave the model as it was and fire no event
C13_AbsentGroupIsNoOp ==
    AbsentGroupCall =>
        /\ groups = mlast.pre.groups
        /\ activeGroup = mlast.pre.activeGroup
        /\ groupToIdentifier = mlast.pre.groupToIdentifier
        /\ mlast.ev = <<>>

\* C13: operations given an input or group that is not present leave the state
\* unchanged and fire no event: closeEditor, moveEditor and setActive of a
\* group for an input not in editors, and closeGroup, moveGroup and setActive
\* of the stacks model for a group that is not (or no longer) in groups.
C13_AbsentIsNoOp ==
    C13_AbsentEditorIsNoOp /\ C13_AbsentGroupIsNoOp

-----------------------------------------------------------------------------
(* Properties of recentlyClosedEditors (RecentSpec) *)

\* C14: recentlyClosedEditors never holds more than 10 entries in any state
\* reachable by closing pinned inputs any number of times.
C14_RecentlyClosedAtMostTen ==
    Len(recentlyClosedEditors) <= MaxRecentlyClosed

\* an eleventh pinned file input has been closed with none popped
C14_Witness ==
    /\ mlast.op = "closeEditor"
    /\ TrackedCloses(mlast.gev) # <<>>
    /\ Len(mlast.pre) = MaxRecentlyClosed
    /\ Len(recentlyClosedEditors) = MaxRecentlyClosed

\* the entry onEditorClosed keeps of a closed input
ClosedEntry(editor) == [id |-> getId(editor), value |-> factorySerialize(editor)]

\* the last call closed a pinned file input
TrackedClose ==
    /\ mlast.op = "closeEditor"
    /\ TrackedCloses(mlast.gev) # <<>>

\* C15: when a pinned serializable input is closed while recentlyClosedEditors
\* already holds 10 entries, the oldest entry is evicted and the newly closed
\* input becomes the last (most recent) entry, so the buffer always holds the
\* 10 most recently closed pinned inputs in closing order.
C15_OldestIsEvicted ==
    /\ (TrackedClose /\ Len(mlast.pre) = MaxRecentlyClosed) =>
           recentlyClosedEditors = Append(Tail(mlast.pre), ClosedEntry(mlast.editor))
    /\ recentlyClosedEditors = [i \in 1 .. Len(mlast.ring) |-> ClosedEntry(mlast.ring[i])]

\* C16: popLastClosedEditor returns the pinned serializable input that was
\* closed most recently among those not yet popped (last-in first-out over all
\* closes, including when more than 10 inputs have been closed), removes it
\* from the buffer, and returns null when the buffer is empty.
C16_PopIsLastInFirstOut ==
    mlast.op = "popLastClosedEditor" =>
        /\ mlast.result = (IF mlast.ringPre = <<>> THEN NULL
                            ELSE mlast.ringPre[Len(mlast.ringPre)])
        /\ mlast.pre = <<>> => mlast.result = NULL /\ recentlyClosedEditors = <<>>
        /\ mlast.pre # <<>> =>
               recentlyClosedEditors = SubSeq(mlast.pre, 1, Len(mlast.pre) - 1)

-----------------------------------------------------------------------------
(* Properties of next() and previous() (NavSpec) *)

\* the last call started from an active group with an active editor that is
\* open in it
FromPosition ==
    /\ mlast.from.group # NoGroup
    /\ mlast.from.editor # NULL
    /\ IsOpen(groupToIdentifier[mlast.from.group], mlast.from.editor)

\* C17: next() and previous() are mutual inverses on a model that is not
\* otherwise modified: for every position x (an active group with an active
\* editor), if the pair returned by next() is made the active group and active
\* editor, then previous() returns x, and symmetrically for previous() followed
\* by next(); this holds for every number of groups and every group size,
\* including groups with no editors.
C17_NextPreviousAreInverses ==
    /\ (mlast.op = "next" /\ FromPosition) => previous(Model) = mlast.from
    /\ (mlast.op = "previous" /\ FromPosition) => next(Model) = mlast.from

-----------------------------------------------------------------------------
(* Properties of serialize and deserialize (SerialSpec) *)

\* list without the inputs that cannot be serialized
Kept(list) ==
    LET kept(e) == hasEditorInputFactory(getId(e))
    IN  SelectSeq(list, kept)

\* the inputs of one list match those of the other, position by position
SameInputs(a, b) ==
    /\ Len(a) = Len(b)
    /\ \A i \in 1 .. Len(a) : matches(a[i], b[i])

\* both null, or matching inputs
SameInput(a, b) == (a = NULL /\ b = NULL) \/ matches(a, b)

\* C18: for a group serialized and then deserialized, the restored group has
\* the editors of the original in the same display order minus the inputs that
\* cannot be serialized, the same relative MRU order over the kept inputs,
\* active equal to the first kept input of the original MRU order, and preview
\* equal to the original preview if it was kept and none otherwise.
C18_RoundTripKeepsSerializable ==
    last.op = "restore" =>
        /\ SameInputs(grp.editors, Kept(pre.editors))
        /\ SameInputs(grp.mru, Kept(pre.mru))
        /\ SameInput(grp.active, At(Kept(pre.mru), 0))
        /\ SameInput(grp.preview, IF pre.preview # NULL /\ Kept(<<pre.preview>>) # <<>>
                                  THEN pre.preview ELSE NULL)

\* the preview of the original is one of the objects in its editors
PreviewIsElement(g) ==
    g.preview = NULL \/ \E i \in 1 .. Len(g.editors) : g.editors[i] = g.preview

\* the round trip of a group whose preview is one of the objects in editors
C18_RoundTripOfElementPreview ==
    (last.op = "restore" /\ PreviewIsElement(pre)) => C18_RoundTripKeepsSerializable

-----------------------------------------------------------------------------
(* Properties of doValidate and load (LoadSpec) *)

\* the stored record has the defect d
Defect(d, r) ==
    LET n == Len(r.groups)
        G == { r.groups[i] : i \in 1 .. n }
    IN  CASE d = 1 -> n = 0 /\ r.hasActive
          [] d = 2 -> n > 0 /\ ~(r.hasActive /\ r.active >= 0 /\ r.active < n)
          [] d = 3 -> n > 3
          [] d = 4 -> \E g \in G : g.editors = <<>>
          [] d = 5 -> \E g \in G : Len(g.editors) # Len(g.mru)
          [] d = 6 -> \E g \in G : g.hasPreview /\ (g.preview < 0 \/ g.preview >= Len(g.editors))
          [] d = 7 -> \E g \in G : g.label = ""

Defects(r) == { d \in 1 .. 7 : Defect(d, r) }

\* load() has validated the stored record
HasValidated == mlast.op = "load" /\ mlast.invalidId # <<>>

\* C19: doValidate returns a non-zero code for every persisted record that has
\* at least one of these defects, and 0 for a record with none: (1) zero groups
\* with a numeric active index, (2) groups present but the active index does
\* not select one of them, (3) more than 3 groups, (4) a group with zero
\* editors, (5) a group whose editors and mru lengths differ, (6) a numeric
\* preview index that selects no editor, (7) a group with an empty label; a
\* record with exactly one defect yields that defect's own code, distinct from
\* the other six.
C19_ValidateCodes ==
    HasValidated =>
        LET r == workspace.modelRaw[1]
            code == mlast.invalidId[1]
        IN  /\ (code # 0) <=> (Defects(r) # {})
            /\ \A d \in 1 .. 7 : Defects(r) = {d} => code = d

\* a stored record of two groups whose only defect is the empty label of the
\* second
C19_Witness ==
    /\ HasValidated
    /\ Len(workspace.modelRaw[1].groups) = 2
    /\ workspace.modelRaw[1].groups[1] = GoodGroup
    /\ Defects(workspace.modelRaw[1]) = {7}
    /\ mlast.invalidId[1] = 7

\* C20: when the stored record fails doValidate, load applies none of it:
\* afterwards the model has no groups, no active group, an empty group-id
\* lookup and an empty recentlyClosedEditors buffer, exactly as a model with no
\* stored state.
C20_InvalidRecordIsDiscarded ==
    (HasValidated /\ mlast.invalidId[1] # 0) =>
        /\ groups = <<>>
        /\ activeGroup = NoGroup
        /\ DOMAIN groupToIdentifier = {}
        /\ recentlyClosedEditors = <<>>
        /\ IDS = 0

\* a record of groups and recently closed editors that fails only on a label
C20_Witness ==
    /\ HasValidated
    /\ mlast.invalidId[1] = 7
    /\ workspace.modelRaw[1].hasActive
    /\ workspace.modelRaw[1].lastClosed # <<>>
    /\ groups = <<>>

\* the stored value is a record doValidate accepts
StoredValid(ws) ==
    /\ ws.modelRaw # <<>>
    /\ loadError(ws) = NoError
    /\ doValidate(ws.modelRaw[1]) = 0

\* C21: the load of the first access never raises to the caller, whatever is
\* stored: nothing, text that is not JSON, JSON without the groups list, a
\* record doValidate rejects, or one it accepts; whenever the stored value is
\* not an accepted record the model has no groups afterwards.
C21_LoadNeverRaises ==
    mlast.op = "load" =>
        /\ mlast.error = NoError
        /\ ~StoredValid(workspace) => (groups = <<>> /\ activeGroup = NoGroup)

\* the part of C21 about the groups of the model
C21_NotValidStartsEmpty ==
    (mlast.op = "load" /\ ~StoredValid(workspace)) =>
        (groups = <<>> /\ activeGroup = NoGroup)

-----------------------------------------------------------------------------
(* Further properties of one EditorGroup (GroupSpec) *)

\* the index at which the input of the call is displayed after the call
IndexAfter == indexOf(last.editor, grp.editors)

\* the index of the preview editor before the call
PreviewIndexBefore == indexOf(pre.preview, pre.editors)

\* C23: an input newly added by openEditor with an explicit index i, 0 <= i <=
\* number of editors, ends at index i when it is pinned or the group has no
\* preview; when it replaces the preview at index p it ends at i if i <= p and
\* at i - 1 if i > p.
C23_ExplicitIndexIsRespected ==
    (OpenedNew /\ last.options.hasIndex) =>
        IndexAfter = IF last.options.pinned \/ pre.preview = NULL THEN last.options.index
                     ELSE IF last.options.index <= PreviewIndexBefore THEN last.options.index
                     ELSE last.options.index - 1

\* C23 for every index but the one of the preview that is replaced
C23_ExceptAtThePreview ==
    (/\ OpenedNew /\ last.options.hasIndex
     /\ (last.options.pinned \/ last.options.index # PreviewIndexBefore)) =>
        C23_ExplicitIndexIsRespected

\* the call was openEditor of a new pinned input, without index, with the
\* insert direction left
OpenedNewLeft ==
    /\ OpenedNew
    /\ last.direction = Left
    /\ ~last.options.hasIndex
    /\ last.options.pinned

\* C24: with the insert direction left and no explicit index, an input newly
\* added as pinned to a non-empty group is displayed immediately before the
\* active editor, wherever the active editor is; in an empty group it ends at
\* index 0.
C24_NewEditorLeftOfActive ==
    OpenedNewLeft =>
        IF pre.editors = <<>> THEN IndexAfter = 0
        ELSE IsOpen(pre, pre.active) =>
                IndexAfter = indexOf(pre.active, grp.editors) - 1

\* C24 for an empty group and for an active editor that is the first of the
\* group
C24_ActiveFirst ==
    (OpenedNewLeft /\ indexOf(pre.active, pre.editors) <= 0) => C24_NewEditorLeftOfActive

\* the conditions under which openEditor(h, options) is to make h active
ToBeActivated ==
    \/ last.options.active
    \/ pre.active = NULL
    \/ (OpenedNew /\ ~last.options.pinned /\ matches(pre.preview, pre.active))

\* C25: openEditor(h, options) changes the active editor only by making h
\* active, and it makes h active exactly when h was not active and
\* options.active is set, or the group had no active editor, or h is a new
\* non-pinned input and the active editor was the preview it replaces; an input
\* that is present, opened without options.active in a group with an active
\* editor, leaves the active editor as it is.
C25_ActivatedOnlyWhenAsked ==
    last.op = "openEditor" =>
        IF matches(pre.active, last.editor) THEN grp.active = pre.active
        ELSE IF ToBeActivated THEN matches(grp.active, last.editor)
        ELSE grp.active = pre.active

\* C25 for the inputs that were not in the group
C25_OfNewInputs ==
    OpenedNew => C25_ActivatedOnlyWhenAsked

\* the closed events of the last call
ClosedEvents == { i \in 1 .. Len(grp.ev) : grp.ev[i].type = "closed" }

\* the preview of the group when the last call enters closeEditor: unpin(h)
\* has made h the preview before it closes the old one; the other calls close
\* with the preview they found, which changes only when it is closed itself
PreviewAtClose == IF last.op = "unpin" THEN last.editor ELSE pre.preview

\* C26: a closed event carries pinned = false if and only if the closed input
\* matched the preview of the group when closeEditor was entered, and pinned =
\* true otherwise; with pinned = false the preview is null after the close.
C26_ClosedEventTellsPreview ==
    \A i \in ClosedEvents :
        /\ ~grp.ev[i].pinned <=> matches(PreviewAtClose, grp.ev[i].editor)
        /\ ~grp.ev[i].pinned => grp.ev[i].preview = NULL

\* closeEditors closes the preview among other editors
C26_Witness ==
    /\ last.op = "closeEditors"
    /\ \E i \in ClosedEvents : ~grp.ev[i].pinned
    /\ \E i \in ClosedEvents : grp.ev[i].pinned
    /\ grp.preview = NULL

\* openEditor closes the preview it replaces
C26_WitnessReplaced ==
    /\ OpenedNew
    /\ \E i \in ClosedEvents : ~grp.ev[i].pinned /\ matches(pre.preview, grp.ev[i].editor)
    /\ grp.preview = last.editor

\* unpin closes the old preview as a pinned editor
C26_WitnessUnpin ==
    /\ last.op = "unpin"
    /\ \E i \in ClosedEvents : grp.ev[i].pinned /\ matches(pre.preview, grp.ev[i].editor)

\* the call was unpin(h) of an input h that was open and pinned
UnpinnedPinned ==
    /\ last.op = "unpin"
    /\ IsOpen(pre, last.editor)
    /\ ~matches(pre.preview, last.editor)

\* C27: unpin(h) of an input h that is open and pinned makes h the preview and
\* removes the previous preview, if there was one, from editors and mru, so
\* that h is the only input that is not pinned; unpin of an input that is
\* absent or already the preview changes nothing.
C27_UnpinReplacesPreview ==
    last.op = "unpin" =>
        IF UnpinnedPinned
        THEN /\ matches(grp.preview, last.editor)
             /\ indexOf(pre.preview, grp.editors) = -1
             /\ indexOf(pre.preview, grp.mru) = -1
             /\ Range(grp.editors) = Range(pre.editors) \ {pre.preview}
             /\ \A e \in Range(grp.editors) : ~isPinned(grp, e) <=> matches(e, last.editor)
        ELSE grp = pre

\* unpin in a group of three whose preview is the active editor
C27_Witness ==
    /\ UnpinnedPinned
    /\ Len(pre.editors) = 3
    /\ pre.preview # NULL
    /\ matches(pre.active, pre.preview)
    /\ Len(grp.editors) = 2

\* the events of the last call as (type, editor) pairs
EventsFired == [i \in 1 .. Len(grp.ev) |-> <<grp.ev[i].type, grp.ev[i].editor>>]

\* the call was unpin(h) of an open pinned input h in a group with a preview
UnpinnedWithPreview == UnpinnedPinned /\ pre.preview # NULL

\* C28: unpin(h) with an old preview P fires unpinned(h) before the events of
\* closing P: subscribers see unpinned(h), then activated(next) if P was the
\* active editor, then closed(P).
C28_UnpinnedBeforeClosed ==
    UnpinnedWithPreview =>
        IF matches(pre.active, pre.preview)
        THEN /\ Len(grp.ev) = 3
             /\ EventsFired[1] = <<"unpinned", last.editor>>
             /\ EventsFired[2] = <<"activated", grp.active>>
             /\ EventsFired[3] = <<"closed", pre.preview>>
             /\ IsOpen(grp, grp.active)
        ELSE EventsFired = << <<"unpinned", last.editor>>, <<"closed", pre.preview>> >>

\* C28 for a group whose active editor is the head of mru
C28_WhenActiveIsMruHead ==
    (UnpinnedWithPreview /\ matches(At(pre.mru, 0), pre.active)) => C28_UnpinnedBeforeClosed

\* the inputs of mru other than the active editor, in the order of mru
NonActiveByMru(g) ==
    LET notActive(e) == ~matches(e, g.active)
    IN  SelectSeq(g.mru, notActive)

\* closed events for the inputs of list, in that order
ClosedOf(list) == [i \in 1 .. Len(list) |-> <<"closed", list[i]>>]

\* C29: closeAllEditors fires the closed events of the inputs that are not
\* active first, in the order of mru, and the closed event of the active editor
\* last; it fires no activated event; afterwards editors and mru are empty and
\* active and preview are null.
C29_CloseAllClosesActiveLast ==
    last.op = "closeAllEditors" =>
        /\ EventsFired = ClosedOf(NonActiveByMru(pre)) \o
                            (IF pre.active # NULL THEN ClosedOf(<<pre.active>>) ELSE <<>>)
        /\ grp.editors = <<>>
        /\ grp.mru = <<>>
        /\ grp.active = NULL
        /\ grp.preview = NULL

\* C29 for a group whose active editor is null or one of its editors
C29_WhenActiveIsOpen ==
    (last.op = "closeAllEditors" /\ (pre.active = NULL \/ IsOpen(pre, pre.active))) =>
        C29_CloseAllClosesActiveLast

\* the call was closeEditors(except, direction) with except in the group
ClosedOthers == last.op = "closeEditors" /\ IsOpen(pre, last.editor)

\* the editors closeEditors(except, direction) is to leave, in display order
Survivors ==
    LET index == indexOf(last.editor, pre.editors)
    IN  IF last.dir = Left THEN SubSeq(pre.editors, index + 1, Len(pre.editors))
        ELSE IF last.dir = Right THEN SubSeq(pre.editors, 1, index + 1)
        ELSE <<pre.editors[index + 1]>>

\* C30: closeEditors(except, direction) with except in the group removes exactly
\* the inputs displayed before except for direction left, exactly those
\* displayed after it for direction right, and every other input without
\* direction; except stays open, the inputs that stay keep their display order,
\* and without direction except is the active editor afterwards.
C30_CloseEditorsKeepsExcept ==
    ClosedOthers =>
        /\ grp.editors = Survivors
        /\ IsOpen(grp, last.editor)
        /\ last.dir = NoDirection => matches(grp.active, last.editor)

\* C30 for a group whose active editor is the head of mru
C30_WhenActiveIsMruHead ==
    (ClosedOthers /\ matches(At(pre.mru, 0), pre.active)) => C30_CloseEditorsKeepsExcept

\* the part of C30 about the editors that are removed and those that stay
C30_EditorsOnly ==
    ClosedOthers => (grp.editors = Survivors /\ IsOpen(grp, last.editor))

-----------------------------------------------------------------------------
(* Properties of the group view (ViewSpec) *)

\* closeEditor(editor) is in progress or done, for an editor of the group that
\* was dirty and open in no other group
DirtyClose ==
    view.pc # "idle" /\ view.wasOpen /\ view.wasDirty /\ ~view.wasInOther

\* the group has fired a closed event for the editor since closeEditor began
ViewFiredClosed(editor) ==
    \E i \in 1 .. Len(grp.ev) : grp.ev[i].type = "closed" /\ grp.ev[i].editor = editor

\* C22: closeEditor(editor) of the group view on a dirty editor that is open in
\* no other group leaves the editor in the group as long as the confirmation
\* has not resolved; when it resolves to a veto the editor is still open in the
\* group and no closed event has been fired for it; the veto is a boolean
\* result.
C22_DirtyCloseWaitsForConfirmation ==
    DirtyClose =>
        /\ view.pc # "done" => indexOf(view.editor, grp.editors) >= 0
        /\ view.pc = "done" => view.veto \in {<<TRUE>>, <<FALSE>>}
        /\ (view.pc = "done" /\ view.veto = <<TRUE>>) =>
              /\ indexOf(view.editor, grp.editors) >= 0
              /\ ~ViewFiredClosed(view.editor)

\* C22 for the calls in which the editor opens without an error
C22_WhenTheEditorOpens ==
    ~view.openFailed => C22_DirtyCloseWaitsForConfirmation

-----------------------------------------------------------------------------
(* Further properties of the groups of the stacks model (StacksSpec) *)

\* the position of the group id in the list, -1 if it is not there
PositionIn(list, id) ==
    LET hits == { i \in 0 .. Len(list) - 1 : list[i + 1] = id }
    IN  IF hits = {} THEN -1 ELSE CHOOSE i \in hits : \A j \in hits : i <= j

\* groups without the group the last call named
GroupsButNamed ==
    LET other(id) == id # mlast.group
    IN  SelectSeq(groups, other)

\* C31: openGroup adds exactly one group and removes none: with an explicit
\* index i, 0 <= i <= number of groups, the new group is at position i and the
\* groups that were present are still in groups in their order; without index
\* the new group is the only group of a model that was empty and otherwise
\* stands immediately right of the group that was active.
C31_OpenGroupAddsOneGroup ==
    mlast.op = "openGroup" =>
        /\ GroupsButNamed = mlast.pre.groups
        /\ Len(groups) = Len(mlast.pre.groups) + 1
        /\ IF mlast.toIndex # NoIndex THEN PositionIn(groups, mlast.group) = mlast.toIndex
           ELSE IF mlast.pre.groups = <<>> THEN groups = <<mlast.group>>
           ELSE PositionIn(mlast.pre.groups, mlast.pre.activeGroup) >= 0 =>
                   PositionIn(groups, mlast.group) =
                       PositionIn(groups, mlast.pre.activeGroup) + 1

\* C31 for the calls without index and those that name the end of groups
C31_WhenNoGroupIsAtTheIndex ==
    (mlast.op = "openGroup" /\ mlast.toIndex \in {NoIndex, Len(mlast.pre.groups)}) =>
        C31_OpenGroupAddsOneGroup

\* the group the last call named, as the call found it
NamedGroupBefore == mlast.pre.groupToIdentifier[mlast.group]

\* the call was closeGroup(g) of a group g of the model
ClosedGroup ==
    mlast.op = "closeGroup" /\ PositionIn(mlast.pre.groups, mlast.group) >= 0

\* the group right of position i in the list, else the one left of it, else none
NeighbourOf(list, i) ==
    IF i + 1 < Len(list) THEN list[i + 2]
    ELSE IF i >= 1 THEN list[i]
    ELSE NoGroup

\* the group has fired a closed event for the input during the last call
GroupFiredClosed(editor) ==
    \E i \in 1 .. Len(mlast.gev) :
        mlast.gev[i].type = "closed" /\ mlast.gev[i].editor = editor

\* C32: closeGroup(g) of the active group makes the group right of g active,
\* else the group left of it, and activeGroup null if g was the only group;
\* closeGroup of another group leaves activeGroup as it is; in all cases g is
\* afterwards in neither groups nor the id lookup and holds no editors.
C32_CloseGroupActivatesNeighbour ==
    /\ ClosedGroup =>
          activeGroup = IF mlast.pre.activeGroup = mlast.group
                        THEN NeighbourOf(mlast.pre.groups,
                                         PositionIn(mlast.pre.groups, mlast.group))
                        ELSE mlast.pre.activeGroup
    /\ mlast.op = "closeGroup" =>
          /\ PositionIn(groups, mlast.group) = -1
          /\ mlast.group \notin DOMAIN groupToIdentifier
          /\ mlast.group \in DOMAIN mlast.pre.groupToIdentifier =>
                \A e \in Range(NamedGroupBefore.editors) : GroupFiredClosed(e)

\* C32 for the groups that are in groups when closeGroup is called
C32_OfGroupsOfTheModel ==
    ClosedGroup => C32_CloseGroupActivatesNeighbour

-----------------------------------------------------------------------------
(* next() and previous() on the ring of all editors (NavSpec) *)

RECURSIVE RingOf(_)
\* the editors of the groups of list, each with its group, in the order of
\* the groups and of the editors in each group
RingOf(list) ==
    IF list = <<>> THEN <<>>
    ELSE LET id == Head(list)
             editors == groupToIdentifier[id].editors
         IN  [i \in 1 .. Len(editors) |-> Position(id, editors[i])] \o RingOf(Tail(list))

\* the position is a group with an editor that is open in it
IsOpenPosition(position) ==
    /\ position.group \in DOMAIN groupToIdentifier
    /\ position.editor # NULL
    /\ IsOpen(groupToIdentifier[position.group], position.editor)

\* result is the position `by` steps after the active one on the ring of all
\* editors, and an open editor of its group
IsRingNeighbour(result, by) ==
    LET ring == RingOf(groups)
        here == PositionIn(ring, ActivePosition(Model))
    IN  /\ IsOpenPosition(result)
        /\ here >= 0 => result = At(ring, (here + by + Len(ring)) % Len(ring))

\* C33: next() returns the cyclic successor and previous() the cyclic
\* predecessor of the active group's active editor in the editors of all
\* groups concatenated in group order; the returned editor is always an open
\* editor of the returned group; both return null without an active group.
C33_NextPreviousOnTheRing ==
    /\ activeGroup = NoGroup => next(Model) = NoPosition /\ previous(Model) = NoPosition
    /\ activeGroup # NoGroup =>
          IsRingNeighbour(next(Model), 1) /\ IsRingNeighbour(previous(Model), -1)

\* no group of the model is empty and the active group is one of them
NoGroupIsEmpty ==
    /\ PositionIn(groups, activeGroup) >= 0
    /\ \A i \in 1 .. Len(groups) : groupToIdentifier[groups[i]].editors # <<>>

\* C33 for the models in which every group has an editor
C33_WhenNoGroupIsEmpty ==
    (activeGroup = NoGroup \/ NoGroupIsEmpty) => C33_NextPreviousOnTheRing

\* next() leaves the active group for the first editor of the group after it
C33_WhenNoGroupIsEmpty_Witness ==
    /\ NoGroupIsEmpty
    /\ Len(groups) >= 2
    /\ next(Model).group # activeGroup
    /\ previous(Model).group = activeGroup

-----------------------------------------------------------------------------
(* Properties of save() and of the load of the next session (PersistSpec) *)

\* the group has an editor of a type with a factory
HasSerializableEditor(id) == serializableEditors(groupToIdentifier[id]) # <<>>

\* the groups of the model that have a serializable editor
GroupsToStore == SelectSeq(groups, HasSerializableEditor)

\* the record save() has written
SavedRecord == workspace.modelRaw[1]

\* C34: the record written by save() has exactly the groups with at least one
\* serializable editor, in model order; its active index is the position of
\* the active group when no group was dropped, 0 when a group was dropped and
\* one remains, and undefined when no group remains.
C34_SaveDropsEmptyGroups ==
    mlast.op = "save" =>
        /\ Len(SavedRecord.groups) = Len(GroupsToStore)
        /\ \A i \in 1 .. Len(GroupsToStore) :
              /\ SavedRecord.groups[i].label = groupToIdentifier[GroupsToStore[i]].label
              /\ SavedRecord.groups[i].editors =
                     serializeEditors(serializableEditors(groupToIdentifier[GroupsToStore[i]]))
        /\ IF GroupsToStore = <<>> THEN ~SavedRecord.hasActive
           ELSE /\ SavedRecord.hasActive
                /\ SavedRecord.active = IF Len(GroupsToStore) = Len(groups)
                                        THEN PositionIn(groups, activeGroup) ELSE 0

\* a group was dropped, and the active group is not the first that remains
C34_Witness ==
    /\ mlast.op = "save"
    /\ Len(GroupsToStore) = 1
    /\ groups # <<>> /\ activeGroup = groups[1]
    /\ activeGroup # GroupsToStore[1]

\* no group was dropped and the active group is not the first
C34_WitnessNoneDropped ==
    /\ mlast.op = "save"
    /\ Len(GroupsToStore) = Len(groups)
    /\ PositionIn(groups, activeGroup) > 0

\* the groups load() restores from the storage ws into a model that has
\* none
RestoredGroups(ws) == GroupsOf(load([FreshModel EXCEPT !.loaded = TRUE], ws))

\* the last call was the first call on its model, and one that reads the
\* groups
FirstAccess == mlast.op \notin {"none", "save"} /\ mlast.first

\* C35: the stored state is loaded before the first observation of the model:
\* whichever query or operation is called first on a fresh model (groups,
\* activeGroup, getGroup, groupAt, positionOfGroup, openGroup, closeGroup,
\* setActive, moveGroup, next, previous) observes the groups restored from
\* storage.
C35_FirstAccessSeesStoredGroups ==
    FirstAccess => mlast.found = RestoredGroups(mlast.ws)

\* C35 for the calls other than groupAt
C35_ExceptGroupAt ==
    (FirstAccess /\ mlast.op # "groupAt") => C35_FirstAccessSeesStoredGroups

\* a first call that finds the groups of the session before
C35_ExceptGroupAt_Witness ==
    /\ FirstAccess
    /\ mlast.op = "activeGroup"
    /\ mlast.ws.modelRaw # <<>>
    /\ Len(mlast.found) = 2

\* every editor of every group of the model is of a type with a factory
AllSerializable ==
    \A i \in 1 .. Len(groups) :
        \A e \in Range(groupToIdentifier[groups[i]].editors) :
            hasEditorInputFactory(getId(e))

\* the model a fresh model becomes when it loads the storage
RestoredModel == load([FreshModel EXCEPT !.loaded = TRUE], workspace)

\* the restored model has the groups of the model, in the same order, with
\* the same labels and editors, and the same active group
SameGroupsRestored ==
    LET restored == RestoredModel
        group(i) == restored.groupToIdentifier[restored.groups[i]]
    IN  /\ Len(restored.groups) = Len(groups)
        /\ \A i \in 1 .. Len(groups) :
              /\ group(i).label = groupToIdentifier[groups[i]].label
              /\ SameInputs(group(i).editors, groupToIdentifier[groups[i]].editors)
        /\ PositionIn(restored.groups, restored.activeGroup) = PositionIn(groups, activeGroup)

\* C36: for every model reachable by openGroup, renameGroup, openEditor,
\* closeEditor, closeGroup, moveGroup and setActive (and by the legacy
\* migration) in which all editors are serializable, save() followed by a load
\* in a fresh model passes validation and restores the same groups in the same
\* order with the same labels and editors, and the same active group.
C36_SaveThenLoadRestores ==
    (mlast.op = "save" /\ AllSerializable) =>
        /\ doValidate(SavedRecord) = 0
        /\ SameGroupsRestored

\* every group of the model has a label and an editor
GroupsAreStorable ==
    \A i \in 1 .. Len(groups) :
        /\ groupToIdentifier[groups[i]].label # ""
        /\ groupToIdentifier[groups[i]].editors # <<>>

\* C36 for the models whose groups all have a label and an editor
C36_OfGroupsWithLabelAndEditor ==
    (mlast.op = "save" /\ GroupsAreStorable) => C36_SaveThenLoadRestores

\* two groups with serializable editors, the second active, are saved
C36_OfGroupsWithLabelAndEditor_Witness ==
    /\ mlast.op = "save"
    /\ AllSerializable /\ GroupsAreStorable
    /\ Len(groups) = 2
    /\ activeGroup = groups[2]

\* C36 for the models whose groups all have an editor: the groups of the
\* legacy migration have no label
C36_OfGroupsWithEditor ==
    (mlast.op = "save" /\ \A i \in 1 .. Len(groups) : groupToIdentifier[groups[i]].editors # <<>>)
        => C36_SaveThenLoadRestores

-----------------------------------------------------------------------------
(* Properties of the tracking of closed preview editors (TrackSpec) *)

\* the entries the last call added to recentlyClosedEditors
AddedEntries ==
    IF mlast.op = "none" THEN {}
    ELSE { recentlyClosedEditors[i] : i \in Len(mlast.pre) + 1 .. Len(recentlyClosedEditors) }

\* the entry is of an input that was opened pinned or passed to pin
OfPinnedInput(entry) ==
    \E e \in mlast.everPinned : entry.value = factorySerialize(e)

\* C37: an input that was opened non-pinned and never passed to pin is never
\* added to recentlyClosedEditors, whatever removes it from its group:
\* closeEditor, the opening of another non-pinned input, unpin of another
\* input, closeEditors, closeAllEditors or closeGroup.
C37_PreviewIsNeverTracked ==
    \A entry \in AddedEntries : OfPinnedInput(entry)

\* C37 for the calls other than unpin
C37_ExceptByUnpin ==
    mlast.op # "unpin" => C37_PreviewIsNeverTracked

\* a preview that was never pinned is closed by the opening of another
\* preview, and a pinned input was tracked before
C37_ExceptByUnpin_Witness ==
    /\ mlast.op = "openEditor"
    /\ \E i \in 1 .. Len(mlast.gev) :
          mlast.gev[i].type = "closed" /\ mlast.gev[i].editor \notin mlast.everPinned
    /\ recentlyClosedEditors # <<>>

-----------------------------------------------------------------------------
(* Properties of the groups load() restores (LoadSpec) *)

\* load() has applied a stored record that doValidate accepted
LoadedAccepted ==
    /\ mlast.op = "load"
    /\ mlast.error = NoError
    /\ mlast.invalidId = <<0>>

\* mru is a permutation of editors without missing entry, active is one of
\* editors, and preview is null or one of editors
GroupInvariants(g) ==
    /\ Len(g.mru) = Len(g.editors)
    /\ NULL \notin Range(g.mru)
    /\ Range(g.mru) = Range(g.editors)
    /\ \A i, j \in 1 .. Len(g.mru) : g.mru[i] = g.mru[j] => i = j
    /\ g.active # NULL /\ g.active \in Range(g.editors)
    /\ g.preview = NULL \/ g.preview \in Range(g.editors)

\* C38: every stored record accepted by doValidate (code 0) is restored into
\* groups that satisfy the group invariants: mru is a permutation of editors
\* with no missing entry, the active editor is an element of editors, and the
\* preview is null or an element of editors.
C38_AcceptedRecordsRestoreValidGroups ==
    LoadedAccepted =>
        \A i \in 1 .. Len(groups) : GroupInvariants(groupToIdentifier[groups[i]])

\* the mru of every group of the stored record lists every index of its
\* editors once
StoredMruIsPermutation ==
    \A i \in 1 .. Len(workspace.modelRaw[1].groups) :
        LET g == workspace.modelRaw[1].groups[i]
        IN  Range(g.mru) = 0 .. Len(g.editors) - 1

\* C38 for the records whose mru lists are permutations of the indices
C38_WhenMruIsPermutation ==
    (LoadedAccepted /\ StoredMruIsPermutation) => C38_AcceptedRecordsRestoreValidGroups

\* a record with a group of two editors and a preview is restored
C38_WhenMruIsPermutation_Witness ==
    /\ LoadedAccepted /\ StoredMruIsPermutation
    /\ \E i \in 1 .. Len(groups) :
          /\ Len(groupToIdentifier[groups[i]].editors) = 2
          /\ groupToIdentifier[groups[i]].preview # NULL

-----------------------------------------------------------------------------
(* Properties of the recovery from failing openings (CascadeSpec) *)

\* no opening of the view is pending: the cascade has completed
CascadeCompleted == view.pending = {}

\* C40: when openings fail, the cascade of closing the failed active editor
\* and opening the next active one terminates: it ends with an opened editor
\* or an empty group, shows at most one error notification, and leaves
\* ignoreOpenEditorErrors false once it has completed.
C40_CascadeNotifiesOnce ==
    /\ view.notifications <= 1
    /\ CascadeCompleted => ~view.ignoreOpenEditorErrors

\* C40 without the number of notifications
C40_IgnoreIsResetAtTheEnd ==
    CascadeCompleted => ~view.ignoreOpenEditorErrors

\* a cascade has emptied a group of three editors
C40_IgnoreIsResetAtTheEnd_Witness ==
    /\ CascadeCompleted
    /\ grp.editors = <<>>
    /\ view.notifications >= 1
    /\ Cardinality({ i \in 1 .. Len(grp.ev) : grp.ev[i].type = "closed" }) = 3

\* the editors of the group and the openings that are pending
CascadeMeasure(g, v) == Len(g.editors) + Cardinality(v.pending)

\* C40, termination: every opening that settles removes an editor or leaves
\* one opening less pending, so that a cascade ends after finitely many
C40_EverySettleShrinks ==
    [][PendingOpenSettles => CascadeMeasure(grp', view') < CascadeMeasure(grp, view)]_vars

-----------------------------------------------------------------------------
(* Properties of moveEditor to another group (MoveSpec) *)

\* C39: moving an editor to another group opens it in the target group before
\* it closes it in the source group, so that at every intermediate state the
\* editor is contained in a group and the move does not close the input;
\* after the move the editor is open in the target group and no longer in the
\* source group.
C39_MoveOpensBeforeItCloses ==
    /\ view.pc = "moving" => contains(view.target, view.editor)
    /\ view.pc = "moved" =>
          /\ contains(view.target, view.editor)
          /\ ~contains(grp, view.editor)
          /\ view.editor \notin view.disposed

\* C39 for the moves whose opening no listener prevents
C39_WhenNotPrevented ==
    ~view.prevented => C39_MoveOpensBeforeItCloses

\* the active editor of the source was moved to a target that did not have it
C39_WhenNotPrevented_Witness ==
    /\ view.pc = "moved"
    /\ ~view.prevented
    /\ view.wasOpen /\ ~view.wasInOther
    /\ \E i \in 1 .. Len(grp.ev) : grp.ev[i].type = "closed" /\ grp.ev[i].editor = view.editor

====
